---- MODULE Spec2Model ----
(***************************************************************************)
(* A model of the Rust load balancer: the selection policies of            *)
(* src/src/algorithms/mod.rs (round-robin, least-connections, weighted     *)
(* round-robin, IP-hash) as pure operators on a policy-state record, and   *)
(* the dispatcher of src/src/balancer/mod.rs (accept loop, admission       *)
(* semaphore, one forwarder task per accepted connection).                 *)
(*                                                                         *)
(* The specifications:                                                     *)
(*   Spec        the dispatcher LoadBalancer::run with its forwarders;     *)
(*   SpecLeast   the same, with least-connections over two backends;       *)
(*   SpecLive    the same, with the interrupt as a step of its own and a   *)
(*               fair dispatcher; SpecFair, with fair forwarders as well;  *)
(*   SpecPolicy  a policy object called directly and sequentially through  *)
(*               the LoadBalancingAlgorithm interface;                     *)
(*   SpecRace    two tasks inside RoundRobin::next_server at once.         *)
(* Every step of a task is the code between two suspension points.         *)
(***************************************************************************)
EXTENDS Integers, Sequences, FiniteSets, TLC

(***************************************************************************)
(* Bounds of the model.                                                    *)
(***************************************************************************)
\* Capacity of the admission semaphore. balancer/mod.rs:12 sets 500; the
\* model scales it down so that the exhaustion of the permits is reached.
MAX_CONNECTIONS == 2
\* Clients that connect to the listener during one run.
NumClients == 3
\* Longest backend pool.
MaxPool == 2
\* Largest weight drawn or supplied (the source draws from 1..=10).
WeightHi == 2
\* Calls made on a policy object in SpecPolicy.
MaxCalls == 6

VARIABLES
    algo,       \* variant of the Algorithm enum held by the balancer / under test
    servers,    \* LoadBalancer.servers: the backend pool, never written after new
    policy,     \* the fields of the policy object (all behind Arc<RwLock<..>>)
    permits,    \* available permits of connection_limiter
    dpc,        \* position of LoadBalancer::run
    sig,        \* the ctrl_c future is ready
    reporter,   \* state of metrics_task
    naccepted,  \* sockets returned by listener.accept() so far
    conn,       \* per client connection: its forwarder's position and history
    ncalls,     \* SpecPolicy: calls made so far
    last,       \* SpecPolicy: the last call, its result and the state before it
    log,        \* SpecPolicy: results of the next_server calls, in order
    lock,       \* SpecRace: the holder of the write lock of RoundRobin.current
    task,       \* SpecRace: per caller, the position and locals of its call
    relay,      \* SpecRelay: per connection, the two copies and the two peers
    held,       \* SpecLocks: per RwLock, its writer and its readers
    waitq,      \* SpecLocks: per RwLock, the queue of waiting acquisitions
    thread      \* SpecLocks: per task, the steps left of its calls and its locals

vars == <<algo, servers, policy, permits, dpc, sig, reporter, naccepted, conn,
          ncalls, last, log, lock, task, relay, held, waitq, thread>>

(***************************************************************************)
(* Values.                                                                 *)
(***************************************************************************)
BackendNames == <<"a", "b", "c", "d", "e">>
Backends == {BackendNames[i] : i \in 1..MaxPool}
\* The pools: backend names are interchangeable, so a pool of n backends is
\* the first n names, in order.
Pools == {SubSeq(BackendNames, 1, n) : n \in 0..MaxPool}

None == "None"
Panic == "Panic"

Range(f) == {f[x] : x \in DOMAIN f}

\* HashMap::new()
EmptyMap == [x \in {} |-> 0]
\* map.get(k).unwrap_or(&d)
Get(m, k, d) == IF k \in DOMAIN m THEN m[k] ELSE d
\* map.insert(k, v)
Insert(m, k, v) == [x \in DOMAIN m \cup {k} |-> IF x = k THEN v ELSE m[x]]
\* *map.entry(k).or_insert(0) += 1
EntryIncr(m, k) == Insert(m, k, Get(m, k, 0) + 1)

\* A map that keeps no entry for a key whose value is the default d: the
\* map with k set to v.
Sparse(m, k, v, d) ==
    IF v = d
    THEN [x \in DOMAIN m \ {k} |-> m[x]]
    ELSE Insert(m, k, v)

(***************************************************************************)
(* The policy object.  One record carries the fields of all four structs;  *)
(* a variant reads and writes only its own fields:                         *)
(*   RoundRobin          current, requests_served                          *)
(*   LeastConnections    connections, total_requests, successful_requests  *)
(*   WeightedRoundRobin  current, weights, requests_served                 *)
(*   IpHash              requests_served, ip_distribution                  *)
(***************************************************************************)
Variants == {"RoundRobin", "LeastConnections", "WeightedRoundRobin", "IpHash"}
AlgoTags == {"round-robin", "least-connections", "weighted-round-robin",
             "ip-hash", "unknown"}

BlankPolicy ==
    [current |-> 0,
     requests_served |-> EmptyMap,
     connections |-> EmptyMap,
     total_requests |-> EmptyMap,
     successful_requests |-> EmptyMap,
     weights |-> EmptyMap,
     ip_distribution |-> EmptyMap]

RoundRobin_new == BlankPolicy
LeastConnections_new == BlankPolicy
\* The Option<HashMap<String, u32>> argument of the constructors.
NoWeights == <<"None">>
SomeWeights(w) == <<"Some", w>>
\* weights.unwrap_or_default(): the caller's map is stored as it is.
WeightedRoundRobin_new(weights) ==
    [BlankPolicy EXCEPT
        !.weights = IF weights[1] = "None" THEN EmptyMap ELSE weights[2]]
IpHash_new == BlankPolicy

\* Algorithm::new: the variant a tag selects.
Algorithm_variant(algo_type) ==
    CASE algo_type = "round-robin" -> "RoundRobin"
      [] algo_type = "least-connections" -> "LeastConnections"
      [] algo_type = "weighted-round-robin" -> "WeightedRoundRobin"
      [] algo_type = "ip-hash" -> "IpHash"
      [] OTHER -> "RoundRobin"

\* Algorithm::new: the fields of the policy it constructs.
Algorithm_new(algo_type, weights) ==
    CASE algo_type = "round-robin" -> RoundRobin_new
      [] algo_type = "least-connections" -> LeastConnections_new
      [] algo_type = "weighted-round-robin" -> WeightedRoundRobin_new(weights)
      [] algo_type = "ip-hash" -> IpHash_new
      [] OTHER -> RoundRobin_new

\* The result of a next_server call: the value returned (a backend, None, or
\* Panic when the call panics), the policy afterwards, and whether the
\* weighted walk fell through to servers[0].
Result(ret, st, fell) == [ret |-> ret, st |-> st, fell |-> fell]

(***************************************************************************)
(* Round-robin.                                                            *)
(***************************************************************************)
\* A variant of record_request that stores 1 instead of counting up.
RoundRobin_record_request_Reset(p, server) ==
    [p EXCEPT !.requests_served = Insert(@, server, 1)]

RoundRobin_record_request(p, server) ==
    [p EXCEPT !.requests_served = EntryIncr(@, server)]

\* A variant of next_server that advances the cursor before it looks at the
\* pool.
RoundRobin_next_server_AdvanceFirst(p, pool) ==
    IF Len(pool) = 0
    THEN Result(None, [p EXCEPT !.current = @ + 1], FALSE)
    ELSE LET current == (p.current + 1) % Len(pool)
             server == pool[current + 1]
         IN  Result(server,
                    RoundRobin_record_request([p EXCEPT !.current = current], server),
                    FALSE)

\* A variant of next_server that does not write the cursor back.
RoundRobin_next_server_CursorLost(p, pool) ==
    IF Len(pool) = 0
    THEN Result(None, p, FALSE)
    ELSE LET current == (p.current + 1) % Len(pool)
             server == pool[current + 1]
         IN  Result(server, RoundRobin_record_request(p, server), FALSE)

RoundRobin_next_server(p, pool) ==
    IF Len(pool) = 0
    THEN Result(None, p, FALSE)
    ELSE LET current == (p.current + 1) % Len(pool)
             server == pool[current + 1]
         IN  Result(server,
                    RoundRobin_record_request([p EXCEPT !.current = current], server),
                    FALSE)

(***************************************************************************)
(* Least connections.                                                      *)
(***************************************************************************)
\* A variant of connection_started that counts the request but not the
\* active connection.
LeastConnections_connection_started_NoActive(p, server) ==
    [p EXCEPT !.total_requests = EntryIncr(@, server)]

LeastConnections_connection_started(p, server) ==
    [p EXCEPT !.connections = EntryIncr(@, server),
              !.total_requests = EntryIncr(@, server)]

\* A variant of connection_ended that does not count the success.
LeastConnections_connection_ended_NoSuccess(p, server) ==
    IF server \in DOMAIN p.connections /\ p.connections[server] > 0
    THEN [p EXCEPT !.connections = [@ EXCEPT ![server] = @ - 1]]
    ELSE p

\* A variant of connection_ended that counts a success whatever the active
\* count is.
LeastConnections_connection_ended_Unchecked(p, server) ==
    [p EXCEPT !.connections =
                 IF server \in DOMAIN @ /\ @[server] > 0
                 THEN [@ EXCEPT ![server] = @ - 1]
                 ELSE @,
              !.successful_requests = EntryIncr(@, server)]

LeastConnections_connection_ended(p, server) ==
    IF server \in DOMAIN p.connections /\ p.connections[server] > 0
    THEN [p EXCEPT !.connections = [@ EXCEPT ![server] = @ - 1],
                   !.successful_requests = EntryIncr(@, server)]
    ELSE p

\* A variant of min_by_key in which a later element with an equal key
\* replaces the best one so far.
RECURSIVE min_by_key_LastMin(_, _, _, _)
min_by_key_LastMin(connections, pool, i, best) ==
    IF i > Len(pool)
    THEN best
    ELSE min_by_key_LastMin(connections, pool, i + 1,
                    IF Get(connections, best, 0) >= Get(connections, pool[i], 0)
                    THEN pool[i]
                    ELSE best)

\* Iterator::min_by_key over pool[i..]: a later element replaces the best
\* one so far only when its key is strictly smaller.
RECURSIVE min_by_key(_, _, _, _)
min_by_key(connections, pool, i, best) ==
    IF i > Len(pool)
    THEN best
    ELSE min_by_key(connections, pool, i + 1,
                    IF Get(connections, best, 0) > Get(connections, pool[i], 0)
                    THEN pool[i]
                    ELSE best)

LeastConnections_next_server(p, pool) ==
    IF Len(pool) = 0
    THEN Result(None, p, FALSE)
    ELSE Result(min_by_key(p.connections, pool, 2, pool[1]), p, FALSE)

(***************************************************************************)
(* Weighted round-robin.                                                   *)
(***************************************************************************)
\* The backends of pool that ensure_weights will give a weight.
Unweighted(p, pool) == Range(pool) \ DOMAIN p.weights

\* rnd[s] is the value rng.gen_range(1..=10) returns for backend s.
WeightedRoundRobin_ensure_weights(p, pool, rnd) ==
    [p EXCEPT !.weights =
        [s \in DOMAIN p.weights \cup Range(pool) |->
            IF s \in DOMAIN p.weights THEN p.weights[s] ELSE rnd[s]]]

WeightedRoundRobin_record_request(p, server) ==
    [p EXCEPT !.requests_served = EntryIncr(@, server)]

\* servers.iter().map(|s| weights.get(s).unwrap_or(&1)).sum()
RECURSIVE total_weight(_, _, _)
total_weight(weights, pool, i) ==
    IF i > Len(pool)
    THEN 0
    ELSE Get(weights, pool[i], 1) + total_weight(weights, pool, i + 1)

\* A variant of the for loop that compares with <= instead of <.
RECURSIVE weighted_walk_Inclusive(_, _, _, _, _)
weighted_walk_Inclusive(weights, pool, current, i, accumulator) ==
    IF i > Len(pool)
    THEN 0
    ELSE LET acc == accumulator + Get(weights, pool[i], 1)
         IN  IF current <= acc
             THEN i
             ELSE weighted_walk_Inclusive(weights, pool, current, i + 1, acc)

\* The for loop of next_server: the index of the first backend whose
\* accumulated weight exceeds current, 0 when the loop runs to its end.
RECURSIVE weighted_walk(_, _, _, _, _)
weighted_walk(weights, pool, current, i, accumulator) ==
    IF i > Len(pool)
    THEN 0
    ELSE LET acc == accumulator + Get(weights, pool[i], 1)
         IN  IF current < acc
             THEN i
             ELSE weighted_walk(weights, pool, current, i + 1, acc)

WeightedRoundRobin_next_server(p, pool, rnd) ==
    IF Len(pool) = 0
    THEN Result(None, p, FALSE)
    ELSE LET p1 == WeightedRoundRobin_ensure_weights(p, pool, rnd)
             total == total_weight(p1.weights, pool, 1)
         IN  IF total = 0
             THEN \* (*current + 1) % 0 panics; the weights stay written
                  Result(Panic, p1, FALSE)
             ELSE LET current == (p1.current + 1) % total
                      p2 == [p1 EXCEPT !.current = current]
                      i == weighted_walk(p2.weights, pool, current, 1, 0)
                  IN  IF i > 0
                      THEN Result(pool[i],
                                  WeightedRoundRobin_record_request(p2, pool[i]),
                                  FALSE)
                      ELSE Result(pool[1],
                                  WeightedRoundRobin_record_request(p2, pool[1]),
                                  TRUE)

(***************************************************************************)
(* IP hash.                                                                *)
(***************************************************************************)
test_ips == <<"192.168.1.1", "10.0.0.1", "172.16.0.1">>

\* IpHash::hash: DefaultHasher is SipHash-1-3 with a zero key, fed the bytes
\* of the string and 0xff.  A u64 does not fit TLC's integers, so the value
\* is written as its four 16-bit digits, most significant first:
\*   hash("192.168.1.1") = 0x481063a03fee01d5
\*   hash("10.0.0.1")    = 0xd04e03df9b531528
\*   hash("172.16.0.1")  = 0xd68c111b03b48356
IpHash_hash(ip) ==
    CASE ip = "192.168.1.1" -> <<18448, 25504, 16366, 469>>
      [] ip = "10.0.0.1" -> <<53326, 991, 39763, 5416>>
      [] ip = "172.16.0.1" -> <<54924, 4379, 948, 33622>>

\* hash % n, digit by digit.
RECURSIVE u64_mod(_, _, _, _)
u64_mod(digits, n, i, acc) ==
    IF i > Len(digits)
    THEN acc
    ELSE u64_mod(digits, n, i + 1, (acc * 65536 + digits[i]) % n)

IpHash_record_request(p, server, ip) ==
    [p EXCEPT !.requests_served = EntryIncr(@, server),
              !.ip_distribution = Insert(@, ip, server)]

\* A variant of next_server whose index also depends on the requests the first
\* backend has served.
IpHash_next_server_Drift(p, pool, ip) ==
    IF Len(pool) = 0
    THEN Result(None, p, FALSE)
    ELSE LET index == (u64_mod(IpHash_hash(ip), Len(pool), 1, 0) +
                       Get(p.requests_served, pool[1], 0)) % Len(pool)
             server == pool[index + 1]
         IN  Result(server, IpHash_record_request(p, server, ip), FALSE)

IpHash_next_server(p, pool, ip) ==
    IF Len(pool) = 0
    THEN Result(None, p, FALSE)
    ELSE LET index == u64_mod(IpHash_hash(ip), Len(pool), 1, 0)
             server == pool[index + 1]
         IN  Result(server, IpHash_record_request(p, server, ip), FALSE)

(***************************************************************************)
(* The Algorithm enum: dispatch on the variant.                            *)
(***************************************************************************)
\* The values the random sources of a next_server call can produce: the
\* weights drawn for the backends without one, and the test IP drawn.
RandomWeights(a, p, pool) ==
    IF a = "WeightedRoundRobin"
    THEN [Unweighted(p, pool) -> 1..WeightHi]
    ELSE {EmptyMap}
RandomIps(a, pool) ==
    IF a = "IpHash" /\ Len(pool) > 0 THEN Range(test_ips) ELSE {test_ips[1]}

Algorithm_next_server(a, p, pool, rnd, ip) ==
    CASE a = "RoundRobin" -> RoundRobin_next_server(p, pool)
      [] a = "LeastConnections" -> LeastConnections_next_server(p, pool)
      [] a = "WeightedRoundRobin" -> WeightedRoundRobin_next_server(p, pool, rnd)
      [] a = "IpHash" -> IpHash_next_server(p, pool, ip)

Algorithm_connection_started(a, p, server) ==
    IF a = "LeastConnections"
    THEN LeastConnections_connection_started(p, server)
    ELSE p

Algorithm_connection_ended(a, p, server) ==
    IF a = "LeastConnections"
    THEN LeastConnections_connection_ended(p, server)
    ELSE p

(***************************************************************************)
(* get_metrics.  A metric string is modelled by the numbers formatted into *)
(* it; a percentage printed with {:.1} by its value in tenths of a percent.*)
(***************************************************************************)
RECURSIVE SumValues(_)
SumValues(m) ==
    IF DOMAIN m = {}
    THEN 0
    ELSE LET k == CHOOSE x \in DOMAIN m : TRUE
         IN  m[k] + SumValues([x \in DOMAIN m \ {k} |-> m[x]])

\* (count as f64 / total as f64) * 100.0 printed with one decimal: the
\* nearest tenth, a tie going to the even digit (no tie has total < 16).
Percent1(count, total) ==
    IF total > 0
    THEN LET q == (count * 1000) \div total
             r == (count * 1000) % total
         IN  IF 2 * r > total \/ (2 * r = total /\ q % 2 = 1) THEN q + 1 ELSE q
    ELSE 0

RoundRobin_get_metrics(p) ==
    LET total_requests == SumValues(p.requests_served)
    IN  [server \in DOMAIN p.requests_served |->
            [Requests |-> p.requests_served[server],
             Distribution |-> Percent1(p.requests_served[server], total_requests)]]

\* The inherent method, which Algorithm::get_metrics calls.
LeastConnections_get_metrics(p) ==
    [server \in DOMAIN p.connections |->
        LET total_reqs == Get(p.total_requests, server, 0)
            success_reqs == Get(p.successful_requests, server, 0)
        IN  [Active |-> p.connections[server],
             Total |-> total_reqs,
             Success |-> success_reqs,
             Rate |-> Percent1(success_reqs, total_reqs)]]

\* The inherent method, which Algorithm::get_metrics calls.
WeightedRoundRobin_get_metrics(p) ==
    LET total_requests == SumValues(p.requests_served)
    IN  [server \in DOMAIN p.weights |->
            LET served == Get(p.requests_served, server, 0)
            IN  [Weight |-> p.weights[server],
                 Requests |-> served,
                 Distribution |-> Percent1(served, total_requests)]]

\* IPs: the keys of ip_distribution mapped to the server (the string joins
\* them in the map's iteration order).
IpHash_get_metrics(p) ==
    LET total_requests == SumValues(p.requests_served)
    IN  [server \in DOMAIN p.requests_served |->
            [Requests |-> p.requests_served[server],
             Distribution |-> Percent1(p.requests_served[server], total_requests),
             IPs |-> {ip \in DOMAIN p.ip_distribution :
                         p.ip_distribution[ip] = server}]]

Algorithm_get_metrics(a, p) ==
    CASE a = "RoundRobin" -> RoundRobin_get_metrics(p)
      [] a = "LeastConnections" -> LeastConnections_get_metrics(p)
      [] a = "WeightedRoundRobin" -> WeightedRoundRobin_get_metrics(p)
      [] a = "IpHash" -> IpHash_get_metrics(p)

(***************************************************************************)
(* The dispatcher: LoadBalancer::run and the forwarder task it spawns for  *)
(* each accepted connection.                                               *)
(***************************************************************************)
Clients == 1..NumClients

\* A connection: the position of its forwarder; the locals of the task
\* (server, result of forward_request) and of forward_request (kind of the
\* first read), each alive only as long as the code holds it; the number of
\* TcpStream::connect calls made for it while the task runs; and the calls
\* the task has made on the policy and on its permit.
NewConn == [pc |-> "new", server |-> None, kind |-> None, result |-> None,
            dials |-> 0, trace |-> <<>>]

\* A connection whose forwarder has ended: the task's locals are dropped,
\* the client socket and the permit with them; the calls it made remain.
Closed(trace) == [NewConn EXCEPT !.pc = "closed", !.trace = trace]

Event(op, arg) == <<op, arg>>
Count(c, op) == Cardinality({i \in 1..Len(conn[c].trace) : conn[c].trace[i][1] = op})
Did(c, op) == Count(c, op) > 0

\* What the first client.read of forward_request can yield: an error, 0
\* bytes, a prefix that contains "GET /metrics", any other prefix.
Reads == {"err", "eof", "metrics", "other"}

\* request.contains("GET /metrics")
IsMetricsRequest(kind) == kind = "metrics"

\* A call made on the policy in SpecPolicy: the operation, its argument (the
\* backend, or the IP next_server drew), what it returned, and the policy
\* before it.
Call(op, arg, ret, fell, pre) ==
    [op |-> op, arg |-> arg, ret |-> ret, fell |-> fell, pre |-> pre]
NoCall == Call(None, None, None, FALSE, BlankPolicy)

\* The two tasks that call next_server on the same round-robin policy.
Callers == {"t1", "t2"}

\* A call of next_server: its position; the value it read from *current and
\* the value it wrote back; what it returned; and whether the other call
\* was running when it began.
IdleTask == [pc |-> "idle", local |-> None, seen |-> None, ret |-> None,
             met |-> FALSE]

raceVars == <<lock, task>>

\* The relay of one connection before forward_request reaches it.  The
\* client has sent its request and waits for the response; the backend
\* waits for a request; the two copies have not completed; server_bytes is
\* what the copy from the backend has moved so far, and inbox says that the
\* response lies in the socket of the client.
IdleRelay == [client |-> "waiting", backend |-> "waiting", c2s |-> "pending",
             s2c |-> "pending", server_bytes |-> 0, inbox |-> FALSE]

\* relay holds the connections whose relay has left this state.
Relay(c) == Get(relay, c, IdleRelay)

relayVars == <<relay>>

\* The RwLocks of the balancer and of the four policies, by the name of
\* the field they guard.
Locks == {"servers", "current", "requests_served", "connections",
          "total_requests", "successful_requests", "weights", "ip_distribution"}

\* RwLock::new: no writer, no reader.
Free == [w |-> None, r |-> {}]

\* held and waitq hold the locks that are not free and the queues that are
\* not empty.
Held(l) == Get(held, l, Free)
WaitQ(l) == Get(waitq, l, <<>>)

\* The tasks that call the policy at the same time: two forwarders and a
\* caller of get_metrics.
Threads == {"f1", "f2", "m"}

\* A task before it runs: the steps it has left, the backend next_server
\* gave it, the test IP it drew, and the value it last read from behind a
\* lock.
IdleThread == [pc |-> "new", todo |-> <<>>, ret |-> None, ip |-> None, tmp |-> 0]

lockVars == <<held, waitq, thread>>

\* LoadBalancer::new, up to the bind in run.
Init ==
    /\ \E tag \in AlgoTags :
          /\ algo = Algorithm_variant(tag)
          /\ policy = Algorithm_new(tag, NoWeights)
    /\ servers \in Pools
    /\ permits = MAX_CONNECTIONS
    /\ dpc = "select"
    /\ sig = FALSE
    /\ reporter = "running"
    /\ naccepted = 0
    /\ conn = [c \in Clients |-> NewConn]
    /\ ncalls = 0
    /\ last = NoCall
    /\ log = <<>>
    /\ lock = None
    /\ task = [t \in Callers |-> IdleTask]
    /\ relay = EmptyMap
    /\ held = EmptyMap
    /\ waitq = EmptyMap
    /\ thread = [t \in Threads |-> IdleThread]

policyVars == <<ncalls, last, log>>

\* metrics_task: one tick; get_metrics only reads the policy.
MetricsTick ==
    /\ reporter = "running"
    /\ UNCHANGED vars

\* A variant of the accept that runs while an accepted client still waits
\* for its permit.
D_Accept_WhileWaiting ==
    /\ dpc \in {"select", "acquire"}
    /\ naccepted < NumClients
    /\ naccepted' = naccepted + 1
    /\ conn' = [conn EXCEPT ![naccepted + 1].pc = "accepted"]
    /\ dpc' = "acquire"
    /\ UNCHANGED <<algo, servers, policy, permits, sig, reporter, policyVars, raceVars, relayVars, lockVars>>

\* select!: listener.accept() completes with the next client.
D_Accept ==
    /\ dpc = "select"
    /\ naccepted < NumClients
    /\ naccepted' = naccepted + 1
    /\ conn' = [conn EXCEPT ![naccepted + 1].pc = "accepted"]
    /\ dpc' = "acquire"
    /\ UNCHANGED <<algo, servers, policy, permits, sig, reporter, policyVars, raceVars, relayVars, lockVars>>

\* A variant of the spawn that does not wait for a permit.
D_Acquire_NoWait ==
    /\ dpc = "acquire"
    /\ permits' = IF permits > 0 THEN permits - 1 ELSE permits
    /\ conn' = [conn EXCEPT ![naccepted].pc = "spawned"]
    /\ dpc' = "select"
    /\ UNCHANGED <<algo, servers, policy, sig, reporter, naccepted, policyVars, raceVars, relayVars, lockVars>>

\* acquire_owned().await completes, and the forwarder is spawned with the
\* client socket and the permit.
D_Acquire ==
    /\ dpc = "acquire"
    /\ permits > 0
    /\ permits' = permits - 1
    /\ conn' = [conn EXCEPT ![naccepted].pc = "spawned"]
    /\ dpc' = "select"
    /\ UNCHANGED <<algo, servers, policy, sig, reporter, naccepted, policyVars, raceVars, relayVars, lockVars>>

\* select!: the interrupt has arrived and the shutdown branch is taken: final
\* metrics, abort of metrics_task, break.
D_Shutdown ==
    /\ dpc = "select"
    /\ sig' = TRUE
    /\ reporter' = "aborted"
    /\ dpc' = "done"
    /\ UNCHANGED <<algo, servers, policy, permits, naccepted, conn, policyVars, raceVars, relayVars, lockVars>>

\* A variant of the selection whose None path keeps the permit.
F_Select_Leak(c) ==
    /\ conn[c].pc = "spawned"
    /\ \E rnd \in RandomWeights(algo, policy, servers), ip \in RandomIps(algo, servers) :
          LET r == Algorithm_next_server(algo, policy, servers, rnd, ip)
          IN  /\ policy' = r.st
              /\ IF r.ret \in Range(servers)
                 THEN conn' = [conn EXCEPT
                          ![c].pc = "selected",
                          ![c].server = r.ret,
                          ![c].trace = Append(@, Event("next_server", r.ret))]
                 ELSE conn' = [conn EXCEPT
                          ![c] = Closed(<<Event("next_server", r.ret)>>)]
    /\ UNCHANGED <<algo, servers, permits, dpc, sig, reporter, naccepted, policyVars, raceVars, relayVars, lockVars>>

\* The forwarder reads the pool and asks the policy for a backend; on None
\* (or a panic) the task ends and its permit is dropped with it.
F_Select(c) ==
    /\ conn[c].pc = "spawned"
    /\ \E rnd \in RandomWeights(algo, policy, servers), ip \in RandomIps(algo, servers) :
          LET r == Algorithm_next_server(algo, policy, servers, rnd, ip)
          IN  /\ policy' = r.st
              /\ IF r.ret \in Range(servers)
                 THEN /\ conn' = [conn EXCEPT
                            ![c].pc = "selected",
                            ![c].server = r.ret,
                            ![c].trace = Append(@, Event("next_server", r.ret))]
                      /\ permits' = permits
                 ELSE /\ conn' = [conn EXCEPT
                            ![c] = Closed(<<Event("next_server", r.ret),
                                            Event("drop_permit", c)>>)]
                      /\ permits' = permits + 1
    /\ UNCHANGED <<algo, servers, dpc, sig, reporter, naccepted, policyVars, raceVars, relayVars, lockVars>>

\* algorithm.connection_started(&server).await
F_Started(c) ==
    /\ conn[c].pc = "selected"
    /\ policy' = Algorithm_connection_started(algo, policy, conn[c].server)
    /\ conn' = [conn EXCEPT
          ![c].pc = "reading",
          ![c].trace = Append(@, Event("connection_started", conn[c].server))]
    /\ UNCHANGED <<algo, servers, permits, dpc, sig, reporter, naccepted, policyVars, raceVars, relayVars, lockVars>>

\* A variant of the first read without the test for a metrics request.
F_Read_NoIntercept(c) ==
    /\ conn[c].pc = "reading"
    /\ \E r \in Reads :
          conn' = [conn EXCEPT
              ![c].kind = IF r = "err" THEN None ELSE r,
              ![c].result = IF r = "err" THEN "Err" ELSE None,
              ![c].pc = IF r = "err" THEN "returned" ELSE "dialing"]
    /\ UNCHANGED <<algo, servers, policy, permits, dpc, sig, reporter, naccepted,
                   policyVars, raceVars, relayVars, lockVars>>

\* forward_request: the first read, and the test for a metrics request.
F_Read(c) ==
    /\ conn[c].pc = "reading"
    /\ \E r \in Reads :
          conn' = [conn EXCEPT
              ![c].kind = IF r = "err" THEN None ELSE r,
              ![c].result = IF r = "err" THEN "Err" ELSE None,
              ![c].pc = CASE r = "err" -> "returned"
                          [] IsMetricsRequest(r) -> "metrics"
                          [] OTHER -> "dialing"]
    /\ UNCHANGED <<algo, servers, policy, permits, dpc, sig, reporter, naccepted,
                   policyVars, raceVars, relayVars, lockVars>>

\* forward_request: the metrics branch: get_metrics, write_all, shutdown.
F_Metrics(c) ==
    /\ conn[c].pc = "metrics"
    /\ \E res \in {"Ok", "Err"} :
          conn' = [conn EXCEPT ![c].kind = None, ![c].result = res,
                               ![c].pc = "returned"]
    /\ UNCHANGED <<algo, servers, policy, permits, dpc, sig, reporter, naccepted,
                   policyVars, raceVars, relayVars, lockVars>>

\* What the dial of forward_request can yield: the connect fails, the
\* write of the prefix to the backend fails, both succeed.
Dials == {"ErrConnect", "Err", "Ok"}

\* A variant of the dial that tries again after a failed connect.
Dialed_Retry(c, res) ==
    conn' = [conn EXCEPT
        ![c].dials = IF res = "Err" THEN 0 ELSE @ + 1,
        ![c].kind = IF res = "Err" THEN None ELSE @,
        ![c].result = IF res = "Ok" THEN None ELSE res,
        ![c].pc = CASE res = "Ok" -> "relaying"
                    [] res = "Err" -> "returned"
                    [] OTHER -> "dialing"]

\* forward_request: TcpStream::connect(&server_addr).await? and the replay
\* of the prefix, server.write_all(&buffer[..n]).await?, with the outcome
\* res: on an error forward_request returns it and its locals are dropped.
Dialed(c, res) ==
    conn' = [conn EXCEPT
        ![c].dials = IF res = "Ok" THEN @ + 1 ELSE 0,
        ![c].kind = IF res = "Ok" THEN @ ELSE None,
        ![c].result = IF res = "Ok" THEN None ELSE res,
        ![c].pc = IF res = "Ok" THEN "relaying" ELSE "returned"]

\* The dial; an error of the connect and an error of the write leave
\* forward_request the same way and are one outcome here.
F_Dial(c) ==
    /\ conn[c].pc = "dialing"
    /\ \E res \in {"Err", "Ok"} : Dialed(c, res)
    /\ UNCHANGED <<algo, servers, policy, permits, dpc, sig, reporter, naccepted,
                   policyVars, raceVars, relayVars, lockVars>>

\* The dial with the error of the connect, after which no connection to
\* the backend exists, kept apart from the error of the write.
F_Connect(c) ==
    /\ conn[c].pc = "dialing"
    /\ \E res \in Dials : Dialed(c, res)
    /\ UNCHANGED <<algo, servers, policy, permits, dpc, sig, reporter, naccepted,
                   policyVars, raceVars, relayVars, lockVars>>

\* forward_request: the join of the two copies completes, then the teardown.
\* A copy error gives Ok(()); only client.shutdown() can give Err.
F_Relay(c) ==
    /\ conn[c].pc = "relaying"
    /\ \E res \in {"Ok", "Err"} :
          conn' = [conn EXCEPT ![c].kind = None, ![c].dials = 0,
                               ![c].result = res, ![c].pc = "returned"]
    /\ UNCHANGED <<algo, servers, policy, permits, dpc, sig, reporter, naccepted,
                   policyVars, raceVars, relayVars, lockVars>>

\* A variant of the return that skips connection_ended after an error.
F_Return_SkipOnErr(c) ==
    /\ conn[c].pc = "returned"
    /\ policy' = IF conn[c].result \in {"Err", "ErrConnect"}
                 THEN policy
                 ELSE Algorithm_connection_ended(algo, policy, conn[c].server)
    /\ conn' = [conn EXCEPT
          ![c] = Closed(conn[c].trace \o
                        (IF conn[c].result \in {"Err", "ErrConnect"}
                         THEN <<>>
                         ELSE <<Event("connection_ended", conn[c].server)>>) \o
                        <<Event("drop_permit", c)>>)]
    /\ permits' = permits + 1
    /\ UNCHANGED <<algo, servers, dpc, sig, reporter, naccepted, policyVars, raceVars, relayVars, lockVars>>

\* A variant of the return that does not give the permit back.
F_Return_KeepPermit(c) ==
    /\ conn[c].pc = "returned"
    /\ policy' = Algorithm_connection_ended(algo, policy, conn[c].server)
    /\ conn' = [conn EXCEPT
          ![c] = Closed(conn[c].trace \o <<Event("connection_ended", conn[c].server)>>)]
    /\ UNCHANGED <<algo, servers, permits, dpc, sig, reporter, naccepted, policyVars,
                   raceVars, relayVars, lockVars>>

\* forward_request has returned: algorithm.connection_ended(&server).await,
\* the error line and drop(permit); the task ends.
F_Return(c) ==
    /\ conn[c].pc = "returned"
    /\ policy' = Algorithm_connection_ended(algo, policy, conn[c].server)
    /\ conn' = [conn EXCEPT
          ![c] = Closed(conn[c].trace \o <<Event("connection_ended", conn[c].server),
                                           Event("drop_permit", c)>>)]
    /\ permits' = permits + 1
    /\ UNCHANGED <<algo, servers, dpc, sig, reporter, naccepted, policyVars, raceVars, relayVars, lockVars>>

Next ==
    \/ MetricsTick
    \/ D_Accept
    \/ D_Acquire
    \/ D_Shutdown
    \/ \E c \in Clients :
          \/ F_Select(c)
          \/ F_Started(c)
          \/ F_Read(c)
          \/ F_Metrics(c)
          \/ F_Dial(c)
          \/ F_Relay(c)
          \/ F_Return(c)

Spec == Init /\ [][Next]_vars

\* The balancer with the policy whose counters connection_ended changes,
\* over a pool that is not empty, with the dial that tells a failed connect
\* from a failed write.
InitDial ==
    /\ Init
    /\ algo = Algorithm_variant("least-connections")
    /\ Len(servers) > 0

NextDial ==
    \/ MetricsTick
    \/ D_Accept
    \/ D_Acquire
    \/ D_Shutdown
    \/ \E c \in Clients :
          \/ F_Select(c)
          \/ F_Started(c)
          \/ F_Read(c)
          \/ F_Metrics(c)
          \/ F_Connect(c)
          \/ F_Relay(c)
          \/ F_Return(c)

SpecDial == InitDial /\ [][NextDial]_vars

\* What the task prints once forward_request has returned: the error line
\* with the error e when the result is Err(e), nothing after Ok(()).
Reported(c) ==
    IF conn[c].result \in {"Err", "ErrConnect"}
    THEN <<Event("eprintln", conn[c].result)>>
    ELSE <<>>

\* A variant of the return that counts a success only after Ok(()).
F_Report_OkOnly(c) ==
    /\ conn[c].pc = "returned"
    /\ policy' = IF conn[c].result \in {"Err", "ErrConnect"}
                 THEN LeastConnections_connection_ended_NoSuccess(policy, conn[c].server)
                 ELSE Algorithm_connection_ended(algo, policy, conn[c].server)
    /\ conn' = [conn EXCEPT
          ![c] = Closed(conn[c].trace \o <<Event("connection_ended", conn[c].server)>>
                        \o Reported(c) \o <<Event("drop_permit", c)>>)]
    /\ permits' = permits + 1
    /\ UNCHANGED <<algo, servers, dpc, sig, reporter, naccepted, policyVars, raceVars, relayVars, lockVars>>

\* forward_request has returned: algorithm.connection_ended(&server).await,
\* the error line, kept in the trace of the task, and drop(permit).
F_Report(c) ==
    /\ conn[c].pc = "returned"
    /\ policy' = Algorithm_connection_ended(algo, policy, conn[c].server)
    /\ conn' = [conn EXCEPT
          ![c] = Closed(conn[c].trace \o <<Event("connection_ended", conn[c].server)>>
                        \o Reported(c) \o <<Event("drop_permit", c)>>)]
    /\ permits' = permits + 1
    /\ UNCHANGED <<algo, servers, dpc, sig, reporter, naccepted, policyVars, raceVars, relayVars, lockVars>>

\* The least-connections balancer with the outcome of every connection on
\* record.
NextOutcome ==
    \/ MetricsTick
    \/ D_Accept
    \/ D_Acquire
    \/ D_Shutdown
    \/ \E c \in Clients :
          \/ F_Select(c)
          \/ F_Started(c)
          \/ F_Read(c)
          \/ F_Metrics(c)
          \/ F_Connect(c)
          \/ F_Relay(c)
          \/ F_Report(c)

SpecOutcome == InitDial /\ [][NextOutcome]_vars

(***************************************************************************)
(* The dispatcher with the interrupt as a step of its own: the signal can  *)
(* be delivered while run is suspended in acquire_owned(), where the       *)
(* shutdown future is not polled.                                          *)
(***************************************************************************)
\* The interrupt is delivered: the ctrl_c future becomes ready.
CtrlC ==
    /\ dpc \in {"select", "acquire"}
    /\ sig = FALSE
    /\ sig' = TRUE
    /\ UNCHANGED <<algo, servers, policy, permits, dpc, reporter, naccepted, conn,
                   policyVars, raceVars, relayVars, lockVars>>

\* The steps of the forwarder of c.
Forwarder(c) ==
    \/ F_Select(c)
    \/ F_Started(c)
    \/ F_Read(c)
    \/ F_Metrics(c)
    \/ F_Dial(c)
    \/ F_Relay(c)
    \/ F_Return(c)

\* The policy has no part in the progress of the dispatcher; the balancer
\* runs its default policy, over every pool.
InitLive ==
    /\ Init
    /\ algo = Algorithm_variant("round-robin")

NextLive ==
    \/ CtrlC
    \/ Next

\* The steps of the forwarder of c that wait for no peer: the calls on the
\* policy and the end of the task.
Scheduled(c) ==
    \/ F_Select(c)
    \/ F_Started(c)
    \/ F_Return(c)

\* The tasks are scheduled, and select! picks a ready branch at random, so
\* a branch that is ready again and again is taken.  Nothing is assumed
\* about the peers: a read, a dial or a relay lasts as long as they like.
SpecLive ==
    /\ InitLive
    /\ [][NextLive]_vars
    /\ WF_vars(D_Acquire)
    /\ SF_vars(sig /\ D_Shutdown)
    /\ \A c \in Clients : WF_vars(Scheduled(c))

\* The same, with clients that keep arriving and forwarders that are
\* scheduled and whose peers let every step of theirs complete.
SpecFair ==
    /\ InitLive
    /\ [][NextLive]_vars
    /\ WF_vars(D_Acquire)
    /\ SF_vars(D_Accept)
    /\ \A c \in Clients : WF_vars(Forwarder(c))

(***************************************************************************)
(* The dispatcher with the least-connections policy over two backends and  *)
(* a semaphore that no client has to wait for: the capacity is at least    *)
(* the number of clients, as 500 is for a handful of connections.          *)
(***************************************************************************)
Uncontended == NumClients

InitLeast ==
    /\ algo = Algorithm_variant("least-connections")
    /\ policy = Algorithm_new("least-connections", NoWeights)
    /\ servers = SubSeq(BackendNames, 1, 2)
    /\ permits = Uncontended
    /\ dpc = "select"
    /\ sig = FALSE
    /\ reporter = "running"
    /\ naccepted = 0
    /\ conn = [c \in Clients |-> NewConn]
    /\ ncalls = 0
    /\ last = NoCall
    /\ log = <<>>
    /\ lock = None
    /\ task = [t \in Callers |-> IdleTask]
    /\ relay = EmptyMap
    /\ held = EmptyMap
    /\ waitq = EmptyMap
    /\ thread = [t \in Threads |-> IdleThread]

SpecLeast == InitLeast /\ [][Next]_vars

(***************************************************************************)
(* A policy object called directly: one call after the other through the   *)
(* LoadBalancingAlgorithm interface, on a policy built by Algorithm::new   *)
(* with or without a weight map, over a pool that stays the same.          *)
(***************************************************************************)
\* The weights argument of Algorithm::new: None, or a map from some backends
\* to u32 values.
SuppliedWeights ==
    {NoWeights} \cup
    {SomeWeights(w) : w \in UNION {[S -> 0..WeightHi] : S \in SUBSET Backends}}

InitPolicy ==
    /\ \E tag \in AlgoTags :
          \E w \in IF tag = "weighted-round-robin" THEN SuppliedWeights ELSE {NoWeights} :
             /\ algo = Algorithm_variant(tag)
             /\ policy = Algorithm_new(tag, w)
    /\ servers \in Pools
    /\ permits = MAX_CONNECTIONS
    /\ dpc = "off"
    /\ sig = FALSE
    /\ reporter = "off"
    /\ naccepted = 0
    /\ conn = [c \in Clients |-> NewConn]
    /\ ncalls = 0
    /\ last = NoCall
    /\ log = <<>>
    /\ lock = None
    /\ task = [t \in Callers |-> IdleTask]
    /\ relay = EmptyMap
    /\ held = EmptyMap
    /\ waitq = EmptyMap
    /\ thread = [t \in Threads |-> IdleThread]

dispatcherVars == <<permits, dpc, sig, reporter, naccepted, conn>>

P_NextServer ==
    /\ ncalls < MaxCalls
    /\ \E rnd \in RandomWeights(algo, policy, servers), ip \in RandomIps(algo, servers) :
          LET r == Algorithm_next_server(algo, policy, servers, rnd, ip)
          IN  /\ policy' = r.st
              /\ last' = Call("next_server", IF algo = "IpHash" THEN ip ELSE None,
                               r.ret, r.fell, policy)
              /\ log' = Append(log, r.ret)
    /\ ncalls' = ncalls + 1
    /\ UNCHANGED <<algo, servers, dispatcherVars, raceVars, relayVars, lockVars>>

P_ConnectionStarted ==
    /\ ncalls < MaxCalls
    /\ \E server \in Backends :
          /\ policy' = Algorithm_connection_started(algo, policy, server)
          /\ last' = Call("connection_started", server, None, FALSE, policy)
    /\ ncalls' = ncalls + 1
    /\ UNCHANGED <<algo, servers, log, dispatcherVars, raceVars, relayVars, lockVars>>

P_ConnectionEnded ==
    /\ ncalls < MaxCalls
    /\ \E server \in Backends :
          /\ policy' = Algorithm_connection_ended(algo, policy, server)
          /\ last' = Call("connection_ended", server, None, FALSE, policy)
    /\ ncalls' = ncalls + 1
    /\ UNCHANGED <<algo, servers, log, dispatcherVars, raceVars, relayVars, lockVars>>

\* A variant of get_metrics that empties the served counts it has reported.
P_GetMetrics_Drain ==
    /\ ncalls < MaxCalls
    /\ last' = Call("get_metrics", None, Algorithm_get_metrics(algo, policy), FALSE,
                    policy)
    /\ policy' = [policy EXCEPT !.requests_served = EmptyMap]
    /\ ncalls' = ncalls + 1
    /\ UNCHANGED <<algo, servers, log, dispatcherVars, raceVars, relayVars, lockVars>>

P_GetMetrics ==
    /\ ncalls < MaxCalls
    /\ last' = Call("get_metrics", None, Algorithm_get_metrics(algo, policy), FALSE,
                    policy)
    /\ ncalls' = ncalls + 1
    /\ UNCHANGED <<algo, servers, policy, log, dispatcherVars, raceVars, relayVars, lockVars>>

NextPolicy ==
    \/ P_NextServer
    \/ P_ConnectionStarted
    \/ P_ConnectionEnded
    \/ P_GetMetrics

SpecPolicy == InitPolicy /\ [][NextPolicy]_vars

(***************************************************************************)
(* Two tasks call next_server on one round-robin policy at the same time,  *)
(* as two forwarders do on the multi-threaded runtime.  The tasks run in   *)
(* parallel, so the read and the write of *current are steps of their own; *)
(* the guard returned by self.current.write().await is held from there to  *)
(* the end of the call, record_request included.                           *)
(***************************************************************************)
\* The policy after j sequential next_server calls.
RECURSIVE AfterCalls(_, _, _)
AfterCalls(p, pool, j) ==
    IF j = 0 THEN p ELSE AfterCalls(RoundRobin_next_server(p, pool).st, pool, j - 1)

InitRace ==
    /\ algo = Algorithm_variant("round-robin")
    /\ servers \in Pools
    /\ \E j \in 0..MaxCalls :
          policy = AfterCalls(Algorithm_new("round-robin", NoWeights), servers, j)
    /\ permits = MAX_CONNECTIONS
    /\ dpc = "off"
    /\ sig = FALSE
    /\ reporter = "off"
    /\ naccepted = 0
    /\ conn = [c \in Clients |-> NewConn]
    /\ ncalls = 0
    /\ last = NoCall
    /\ log = <<>>
    /\ lock = None
    /\ task = [t \in Callers |-> IdleTask]
    /\ relay = EmptyMap
    /\ held = EmptyMap
    /\ waitq = EmptyMap
    /\ thread = [t \in Threads |-> IdleThread]

\* The call of t is between its entry and its return.
Running(t) == task[t].pc \in {"waiting", "locked", "read", "written"}

\* next_server is entered; on an empty pool it returns None at once.
R_Call(t) ==
    /\ task[t].pc = "idle"
    /\ task' = [task EXCEPT
          ![t].pc = IF Len(servers) = 0 THEN "done" ELSE "waiting",
          ![t].met = \E u \in Callers \ {t} : Running(u)]
    /\ UNCHANGED <<algo, servers, policy, lock, dispatcherVars, policyVars, relayVars, lockVars>>

\* A variant of the lock that is granted while the other task holds it.
R_Lock_NoWait(t) ==
    /\ task[t].pc = "waiting"
    /\ lock' = t
    /\ task' = [task EXCEPT ![t].pc = "locked"]
    /\ UNCHANGED <<algo, servers, policy, dispatcherVars, policyVars, relayVars, lockVars>>

\* self.current.write().await completes.
R_Lock(t) ==
    /\ task[t].pc = "waiting"
    /\ lock = None
    /\ lock' = t
    /\ task' = [task EXCEPT ![t].pc = "locked"]
    /\ UNCHANGED <<algo, servers, policy, dispatcherVars, policyVars, relayVars, lockVars>>

\* *current = (*current + 1) % servers.len(): the read of *current
R_Read(t) ==
    /\ task[t].pc = "locked"
    /\ task' = [task EXCEPT ![t].pc = "read", ![t].local = policy.current]
    /\ UNCHANGED <<algo, servers, policy, lock, dispatcherVars, policyVars, relayVars, lockVars>>

\* and the write of the new value, which indexes the pool.
R_Write(t) ==
    /\ task[t].pc = "read"
    /\ LET current == (task[t].local + 1) % Len(servers)
       IN  /\ policy' = [policy EXCEPT !.current = current]
           /\ task' = [task EXCEPT ![t].pc = "written",
                                   ![t].seen = current,
                                   ![t].ret = servers[current + 1]]
    /\ UNCHANGED <<algo, servers, lock, dispatcherVars, policyVars, relayVars, lockVars>>

\* record_request, the return of Some(server) and the drop of the guard.
R_Return(t) ==
    /\ task[t].pc = "written"
    /\ policy' = RoundRobin_record_request(policy, task[t].ret)
    /\ task' = [task EXCEPT ![t].pc = "done"]
    /\ lock' = None
    /\ UNCHANGED <<algo, servers, dispatcherVars, policyVars, relayVars, lockVars>>

NextRace ==
    \E t \in Callers :
        \/ R_Call(t)
        \/ R_Lock(t)
        \/ R_Read(t)
        \/ R_Write(t)
        \/ R_Return(t)

SpecRace == InitRace /\ [][NextRace]_vars

(***************************************************************************)
(* The relay of forward_request step by step, with its two peers: a        *)
(* backend that runs Server::handle_connection, and a client that sends    *)
(* its request with "Connection: close", waits for the response and closes *)
(* its socket once it has read it.  The request fits the first read.       *)
(***************************************************************************)
\* The balancer of the round-robin test: the default policy over two
\* backends.
InitRelay ==
    /\ InitLive
    /\ servers = SubSeq(BackendNames, 1, 2)

\* The steps that leave relay alone leave the locks alone too.
relayFrame == <<algo, servers, policy, permits, dpc, sig, reporter, naccepted, conn,
                policyVars, raceVars, lockVars>>

\* forward_request: the first read yields the request of the client.
T_Read(c) ==
    /\ F_Read(c)
    /\ conn'[c].kind = "other"

\* forward_request: the backend accepts the connection and the prefix is
\* written to it.
T_Dial(c) ==
    /\ F_Dial(c)
    /\ conn'[c].pc = "relaying"

\* Server::handle_connection: the read of the request, the sleep and
\* socket.write_all(response).
B_Answer(c) ==
    /\ conn[c].pc = "relaying"
    /\ Relay(c).backend = "waiting"
    /\ relay' = Sparse(relay, c, [Relay(c) EXCEPT !.backend = "answered"], IdleRelay)
    /\ UNCHANGED relayFrame

\* A backend that keeps its socket open after the response.
B_Close_KeepOpen(c) ==
    /\ Relay(c).backend = "answered"
    /\ UNCHANGED vars

\* Server::handle_connection: socket.shutdown() and drop(socket).
B_Close(c) ==
    /\ Relay(c).backend = "answered"
    /\ relay' = Sparse(relay, c, [Relay(c) EXCEPT !.backend = "closed"], IdleRelay)
    /\ UNCHANGED relayFrame

\* server_to_client: the copy reads the response and writes it to the
\* client.
S2C_Copy(c) ==
    /\ conn[c].pc = "relaying"
    /\ Relay(c).s2c = "pending"
    /\ Relay(c).backend \in {"answered", "closed"}
    /\ Relay(c).server_bytes = 0
    /\ relay' = Sparse(relay, c, [Relay(c) EXCEPT !.server_bytes = 1, !.inbox = TRUE], IdleRelay)
    /\ UNCHANGED relayFrame

\* server_to_client: the copy reads 0 bytes after the response and
\* completes with Ok(server_bytes).
S2C_Eof(c) ==
    /\ conn[c].pc = "relaying"
    /\ Relay(c).s2c = "pending"
    /\ Relay(c).backend = "closed"
    /\ Relay(c).server_bytes = 1
    /\ relay' = Sparse(relay, c, [Relay(c) EXCEPT !.s2c = "Ok"], IdleRelay)
    /\ UNCHANGED relayFrame

\* The client reads the response.
K_Receive(c) ==
    /\ Relay(c).client = "waiting"
    /\ Relay(c).inbox
    /\ relay' = Sparse(relay, c, [Relay(c) EXCEPT !.client = "answered"], IdleRelay)
    /\ UNCHANGED relayFrame

\* The client closes its socket after the response ("Connection: close").
K_Close(c) ==
    /\ Relay(c).client = "answered"
    /\ relay' = Sparse(relay, c, [Relay(c) EXCEPT !.client = "closed"], IdleRelay)
    /\ UNCHANGED relayFrame

\* client_to_server: the copy reads 0 bytes from the closed client and
\* completes with Ok(0).
C2S_Eof(c) ==
    /\ conn[c].pc = "relaying"
    /\ Relay(c).c2s = "pending"
    /\ Relay(c).client = "closed"
    /\ relay' = Sparse(relay, c, [Relay(c) EXCEPT !.c2s = "Ok"], IdleRelay)
    /\ UNCHANGED relayFrame

\* Both copies have completed.
Joined(c) == Relay(c).c2s # "pending" /\ Relay(c).s2c # "pending"

\* One copy has completed with an error.
CopyFailed(c) == Relay(c).c2s = "Err" \/ Relay(c).s2c = "Err"

\* tokio::join!(client_to_server, server_to_client) completes when both
\* copies have; any Err gives return Ok(()), two Ok give the teardown, whose
\* client.shutdown() can fail.
T_Join(c) ==
    /\ Joined(c)
    /\ F_Relay(c)
    /\ (CopyFailed(c) \/ Relay(c).server_bytes = 0) => conn'[c].result = "Ok"

\* The steps of the connection of c, its forwarder and its peers.
RelaySteps(c) ==
    \/ F_Select(c)
    \/ F_Started(c)
    \/ T_Read(c)
    \/ T_Dial(c)
    \/ B_Answer(c)
    \/ B_Close(c)
    \/ S2C_Copy(c)
    \/ S2C_Eof(c)
    \/ K_Receive(c)
    \/ K_Close(c)
    \/ C2S_Eof(c)
    \/ T_Join(c)
    \/ F_Return(c)

NextRelay ==
    \/ D_Accept
    \/ D_Acquire
    \/ \E c \in Clients : RelaySteps(c)

\* Every task is scheduled and every peer takes its steps.
SpecRelay ==
    /\ InitRelay
    /\ [][NextRelay]_vars
    /\ WF_vars(D_Accept)
    /\ WF_vars(D_Acquire)
    /\ \A c \in Clients : WF_vars(RelaySteps(c))

\* client_to_server completes with an error: the connection of the client
\* is reset.
X_C2S_Err(c) ==
    /\ conn[c].pc = "relaying"
    /\ Relay(c).c2s = "pending"
    /\ relay' = Sparse(relay, c, [Relay(c) EXCEPT !.c2s = "Err"], IdleRelay)
    /\ UNCHANGED relayFrame

\* server_to_client completes with an error: the connection of the backend
\* is reset.
X_S2C_Err(c) ==
    /\ conn[c].pc = "relaying"
    /\ Relay(c).s2c = "pending"
    /\ relay' = Sparse(relay, c, [Relay(c) EXCEPT !.s2c = "Err"], IdleRelay)
    /\ UNCHANGED relayFrame

NextFault ==
    \/ NextRelay
    \/ \E c \in Clients :
          \/ X_C2S_Err(c)
          \/ X_S2C_Err(c)

\* The same relay over connections that can be reset.
SpecFault ==
    /\ InitRelay
    /\ [][NextFault]_vars
    /\ WF_vars(D_Accept)
    /\ WF_vars(D_Acquire)
    /\ \A c \in Clients : WF_vars(RelaySteps(c))


(***************************************************************************)
(* The calls on the policy lock by lock.  A call is a sequence of steps:   *)
(* the acquisition and the release of each guard in the order of the code  *)
(* (a guard is released where its scope ends, the guards of one scope in   *)
(* the reverse order of their declaration), and between them the reads and *)
(* writes of the guarded value.  tokio's RwLock is fair: acquisitions      *)
(* queue in FIFO order, so a waiting writer holds back later readers.      *)
(* Two forwarders and the metrics reporter run over a pool of two          *)
(* backends; one forwarder relays a request, the other serves a            *)
(* "GET /metrics".  The reporter calls get_metrics again and again.        *)
(***************************************************************************)
Forwarders == {"f1", "f2"}
Reporter == "m"

\* What the first read of the connection of t yields.
Kind(t) == IF t = "f2" THEN "metrics" ELSE "other"

Acq(l, m) == <<"acq", l, m>>
Rel(l) == <<"rel", l>>
Load(f, k) == <<"load", f, k>>
Store(f, k, g) == <<"store", f, k, g>>
Leave(op) == <<"ret", op>>
Io(what) == <<"io", what>>

\* RoundRobin::record_request
RoundRobin_record_request_steps ==
    <<Acq("requests_served", "W"),
      Load("requests_served", "$ret"), Store("requests_served", "$ret", "inc"),
      Rel("requests_served")>>

\* RoundRobin::next_server on a pool that is not empty
RoundRobin_next_server_steps ==
    <<Acq("current", "W"),
      Load("current", "-"), Store("current", "-", "rr"),
      <<"pick">>>> \o
    RoundRobin_record_request_steps \o
    <<Rel("current"), Leave("next_server")>>

\* RoundRobin::get_metrics
RoundRobin_get_metrics_steps ==
    <<Acq("requests_served", "R"), <<"snap">>, Rel("requests_served"),
      Leave("get_metrics")>>

\* LeastConnections::next_server on a pool that is not empty
LeastConnections_next_server_steps ==
    <<Acq("connections", "R"), <<"pick">>, Rel("connections"),
      Leave("next_server")>>

\* LeastConnections::connection_started
LeastConnections_connection_started_steps ==
    <<Acq("connections", "W"), Acq("total_requests", "W"),
      Load("connections", "$ret"), Store("connections", "$ret", "inc"),
      Load("total_requests", "$ret"), Store("total_requests", "$ret", "inc"),
      Rel("total_requests"), Rel("connections"),
      Leave("connection_started")>>

\* LeastConnections::connection_ended
LeastConnections_connection_ended_steps ==
    <<Acq("connections", "W"), Acq("successful_requests", "W"),
      <<"ended">>,
      Rel("successful_requests"), Rel("connections"),
      Leave("connection_ended")>>

\* A variant of get_metrics that takes total_requests before connections.
LeastConnections_get_metrics_steps_Inverted ==
    <<Acq("total_requests", "R"), Acq("connections", "R"),
      Acq("successful_requests", "R"),
      <<"snap">>,
      Rel("successful_requests"), Rel("connections"), Rel("total_requests"),
      Leave("get_metrics")>>

\* LeastConnections::get_metrics, the inherent method Algorithm calls
LeastConnections_get_metrics_steps ==
    <<Acq("connections", "R"), Acq("total_requests", "R"),
      Acq("successful_requests", "R"),
      <<"snap">>,
      Rel("successful_requests"), Rel("total_requests"), Rel("connections"),
      Leave("get_metrics")>>

\* WeightedRoundRobin::ensure_weights
WeightedRoundRobin_ensure_weights_steps ==
    <<Acq("weights", "W"), <<"ensure">>, Rel("weights")>>

\* WeightedRoundRobin::next_server on a pool that is not empty
WeightedRoundRobin_next_server_steps ==
    WeightedRoundRobin_ensure_weights_steps \o
    <<Acq("weights", "R"),
      Acq("current", "W"),
      Load("current", "-"), Store("current", "-", "wrr"),
      <<"pick">>,
      Acq("requests_served", "W"),
      Load("requests_served", "$ret"), Store("requests_served", "$ret", "inc"),
      Rel("requests_served"),
      Rel("current"), Rel("weights"),
      Leave("next_server")>>

\* WeightedRoundRobin::get_metrics, the inherent method Algorithm calls
WeightedRoundRobin_get_metrics_steps ==
    <<Acq("weights", "R"), Acq("requests_served", "R"),
      <<"snap">>,
      Rel("requests_served"), Rel("weights"),
      Leave("get_metrics")>>

\* IpHash::next_server on a pool that is not empty, with record_request
IpHash_next_server_steps ==
    <<<<"pick">>,
      Acq("requests_served", "W"), Acq("ip_distribution", "W"),
      Load("requests_served", "$ret"), Store("requests_served", "$ret", "inc"),
      <<"dist">>,
      Rel("ip_distribution"), Rel("requests_served"),
      Leave("next_server")>>

\* IpHash::get_metrics
IpHash_get_metrics_steps ==
    <<Acq("requests_served", "R"), Acq("ip_distribution", "R"),
      <<"snap">>,
      Rel("ip_distribution"), Rel("requests_served"),
      Leave("get_metrics")>>

\* Algorithm::next_server
Algorithm_next_server_steps(a) ==
    CASE a = "RoundRobin" -> RoundRobin_next_server_steps
      [] a = "LeastConnections" -> LeastConnections_next_server_steps
      [] a = "WeightedRoundRobin" -> WeightedRoundRobin_next_server_steps
      [] a = "IpHash" -> IpHash_next_server_steps

\* Algorithm::connection_started: async {} but for least-connections
Algorithm_connection_started_steps(a) ==
    IF a = "LeastConnections"
    THEN LeastConnections_connection_started_steps
    ELSE <<Leave("connection_started")>>

\* Algorithm::connection_ended: async {} but for least-connections
Algorithm_connection_ended_steps(a) ==
    IF a = "LeastConnections"
    THEN LeastConnections_connection_ended_steps
    ELSE <<Leave("connection_ended")>>

\* Algorithm::get_metrics
Algorithm_get_metrics_steps(a) ==
    CASE a = "RoundRobin" -> RoundRobin_get_metrics_steps
      [] a = "LeastConnections" -> LeastConnections_get_metrics_steps
      [] a = "WeightedRoundRobin" -> WeightedRoundRobin_get_metrics_steps
      [] a = "IpHash" -> IpHash_get_metrics_steps

\* forward_request: the first read, then the metrics branch or the dial and
\* the relay.
forward_request_steps(a, kind) ==
    <<Io("read")>> \o
    (IF IsMetricsRequest(kind)
     THEN Algorithm_get_metrics_steps(a) \o <<Io("write")>>
     ELSE <<Io("dial"), Io("relay")>>)

\* A variant of the spawned task that keeps the guard of the pool until the
\* task ends.
spawned_task_steps_GuardKept(a, kind) ==
    <<Acq("servers", "R")>> \o
    Algorithm_next_server_steps(a) \o
    Algorithm_connection_started_steps(a) \o
    forward_request_steps(a, kind) \o
    Algorithm_connection_ended_steps(a) \o
    <<Rel("servers")>>

\* The task run spawns for a connection: the pool is read-locked around
\* next_server only.
spawned_task_steps(a, kind) ==
    <<Acq("servers", "R")>> \o
    Algorithm_next_server_steps(a) \o
    <<Rel("servers")>> \o
    Algorithm_connection_started_steps(a) \o
    forward_request_steps(a, kind) \o
    Algorithm_connection_ended_steps(a)

\* LoadBalancer::new over two backends, before any task runs.
InitLocks ==
    /\ Init
    /\ servers = SubSeq(BackendNames, 1, 2)
    /\ \E tag \in AlgoTags \ {"unknown"} : algo = Algorithm_variant(tag)

\* The step t is at.
At(t, k) == thread[t].todo # <<>> /\ Head(thread[t].todo)[1] = k
Step(t) == Head(thread[t].todo)
Advance(t) == [thread EXCEPT ![t].todo = Tail(@)]

\* The guards t holds, and whether t waits in the queue of l.
Holds(t) == {l \in Locks : Held(l).w = t \/ t \in Held(l).r}
Queued(t, l) == \E i \in 1..Len(WaitQ(l)) : WaitQ(l)[i][1] = t

\* A read guard needs no writer, a write guard no holder at all.
Compatible(l, m) ==
    /\ Held(l).w = None
    /\ m = "W" => Held(l).r = {}

Grant(l, t, m) ==
    Sparse(held, l,
           IF m = "W" THEN [w |-> t, r |-> {}]
           ELSE [Held(l) EXCEPT !.r = @ \cup {t}],
           Free)

lockFrame == <<algo, servers, permits, dpc, sig, reporter, naccepted, conn,
               policyVars, raceVars, relayVars>>

\* tokio::spawn of the task of a connection.
L_Start(t) ==
    /\ t \in Forwarders
    /\ thread[t].pc = "new"
    /\ thread' = [thread EXCEPT ![t].pc = "run",
                                ![t].todo = spawned_task_steps(algo, Kind(t))]
    /\ UNCHANGED <<policy, held, waitq, lockFrame>>

\* metrics_task: interval.tick() fires and get_metrics is called.
L_Tick(t) ==
    /\ t = Reporter
    /\ thread[t].todo = <<>>
    /\ thread' = [thread EXCEPT ![t].pc = "run",
                                ![t].todo = Algorithm_get_metrics_steps(algo)]
    /\ UNCHANGED <<policy, held, waitq, lockFrame>>

\* A variant of the acquisition that waits for nobody.
L_Acquire_NoWait(t) ==
    /\ At(t, "acq")
    /\ held' = Grant(Step(t)[2], t, Step(t)[3])
    /\ thread' = Advance(t)
    /\ UNCHANGED <<policy, waitq, lockFrame>>

\* lock.read().await / lock.write().await: the guard is given at once when
\* nobody waits and the holders allow it; otherwise the task queues.
L_Acquire(t) ==
    /\ At(t, "acq")
    /\ LET l == Step(t)[2]
           m == Step(t)[3]
       IN  /\ ~Queued(t, l)
           /\ IF WaitQ(l) = <<>> /\ Compatible(l, m)
              THEN /\ held' = Grant(l, t, m)
                   /\ thread' = Advance(t)
                   /\ UNCHANGED waitq
              ELSE /\ waitq' = Sparse(waitq, l, Append(WaitQ(l), <<t, m>>), <<>>)
                   /\ UNCHANGED <<held, thread>>
    /\ UNCHANGED <<policy, lockFrame>>

\* The task at the head of the queue is given the guard.
L_Grant(t) ==
    /\ At(t, "acq")
    /\ LET l == Step(t)[2]
           m == Step(t)[3]
       IN  /\ WaitQ(l) # <<>>
           /\ Head(WaitQ(l))[1] = t
           /\ Compatible(l, m)
           /\ held' = Grant(l, t, m)
           /\ waitq' = Sparse(waitq, l, Tail(WaitQ(l)), <<>>)
    /\ thread' = Advance(t)
    /\ UNCHANGED <<policy, lockFrame>>

\* A guard goes out of scope.
L_Release(t) ==
    /\ At(t, "rel")
    /\ LET l == Step(t)[2]
       IN  held' = Sparse(held, l,
                          [w |-> IF Held(l).w = t THEN None ELSE Held(l).w,
                           r |-> Held(l).r \ {t}],
                          Free)
    /\ thread' = Advance(t)
    /\ UNCHANGED <<policy, waitq, lockFrame>>

\* The key of a step: "$ret" stands for the backend of the task.
Key(t, k) == IF k = "$ret" THEN thread[t].ret ELSE k

\* The read half of `*guard = ..` and of `*map.entry(k).or_insert(0) += 1`.
L_Load(t) ==
    /\ At(t, "load")
    /\ LET f == Step(t)[2]
           k == Key(t, Step(t)[3])
       IN  thread' = [thread EXCEPT
               ![t].todo = Tail(@),
               ![t].tmp = IF f = "current" THEN policy.current
                          ELSE Get(policy[f], k, 0)]
    /\ UNCHANGED <<policy, held, waitq, lockFrame>>

\* The write half.
L_Store(t) ==
    /\ At(t, "store")
    /\ LET f == Step(t)[2]
           k == Key(t, Step(t)[3])
           g == Step(t)[4]
           v == thread[t].tmp
       IN  policy' =
              CASE g = "rr" -> [policy EXCEPT !.current = (v + 1) % Len(servers)]
                [] g = "wrr" ->
                     [policy EXCEPT !.current =
                         (v + 1) % total_weight(policy.weights, servers, 1)]
                [] g = "inc" -> [policy EXCEPT ![f] = Insert(@, k, v + 1)]
    /\ thread' = [thread EXCEPT ![t].todo = Tail(@), ![t].tmp = 0]
    /\ UNCHANGED <<held, waitq, lockFrame>>

\* next_server chooses the backend it returns.
L_Pick(t) ==
    /\ At(t, "pick")
    /\ \E ip \in RandomIps(algo, servers) :
          LET i == weighted_walk(policy.weights, servers, policy.current, 1, 0)
              server ==
                 CASE algo = "RoundRobin" -> servers[policy.current + 1]
                   [] algo = "LeastConnections" ->
                        min_by_key(policy.connections, servers, 2, servers[1])
                   [] algo = "WeightedRoundRobin" ->
                        IF i > 0 THEN servers[i] ELSE servers[1]
                   [] algo = "IpHash" ->
                        servers[u64_mod(IpHash_hash(ip), Len(servers), 1, 0) + 1]
          IN  thread' = [thread EXCEPT
                  ![t].todo = Tail(@),
                  ![t].ret = server,
                  ![t].ip = IF algo = "IpHash" THEN ip ELSE None]
    /\ UNCHANGED <<policy, held, waitq, lockFrame>>

\* ensure_weights under the write guard of weights.
L_Ensure(t) ==
    /\ At(t, "ensure")
    /\ \E rnd \in RandomWeights(algo, policy, servers) :
          policy' = WeightedRoundRobin_ensure_weights(policy, servers, rnd)
    /\ thread' = Advance(t)
    /\ UNCHANGED <<held, waitq, lockFrame>>

\* connection_ended under the write guards of connections and
\* successful_requests.
L_Ended(t) ==
    /\ At(t, "ended")
    /\ policy' = LeastConnections_connection_ended(policy, thread[t].ret)
    /\ thread' = Advance(t)
    /\ UNCHANGED <<held, waitq, lockFrame>>

\* IpHash::record_request: dist.insert(ip, server)
L_Dist(t) ==
    /\ At(t, "dist")
    /\ policy' = [policy EXCEPT
                     !.ip_distribution = Insert(@, thread[t].ip, thread[t].ret)]
    /\ thread' = [thread EXCEPT ![t].todo = Tail(@), ![t].ip = None]
    /\ UNCHANGED <<held, waitq, lockFrame>>

\* get_metrics reads the maps under its read guards.
L_Snap(t) ==
    /\ At(t, "snap")
    /\ thread' = Advance(t)
    /\ UNCHANGED <<policy, held, waitq, lockFrame>>

\* A network operation of forward_request completes.
L_Io(t) ==
    /\ At(t, "io")
    /\ thread' = Advance(t)
    /\ UNCHANGED <<policy, held, waitq, lockFrame>>

\* A call on the policy returns; after its last call the task ends.
L_Return(t) ==
    /\ At(t, "ret")
    /\ thread' = [thread EXCEPT
          ![t].todo = Tail(@),
          ![t].pc = IF Len(thread[t].todo) = 1 /\ t \in Forwarders
                    THEN "done" ELSE @]
    /\ UNCHANGED <<policy, held, waitq, lockFrame>>

ThreadSteps(t) ==
    \/ L_Start(t)
    \/ L_Tick(t)
    \/ L_Acquire(t)
    \/ L_Grant(t)
    \/ L_Release(t)
    \/ L_Load(t)
    \/ L_Store(t)
    \/ L_Pick(t)
    \/ L_Ensure(t)
    \/ L_Ended(t)
    \/ L_Dist(t)
    \/ L_Snap(t)
    \/ L_Io(t)
    \/ L_Return(t)

NextLocks == \E t \in Threads : ThreadSteps(t)

\* Every task is scheduled, and every network operation completes.
SpecLocks ==
    /\ InitLocks
    /\ [][NextLocks]_vars
    /\ \A t \in Threads : WF_vars(ThreadSteps(t))

(***************************************************************************)
(* Properties of the dispatcher (Spec).                                    *)
(***************************************************************************)
\* The forwarder task of c has been spawned and has not ended.
Live(c) == conn[c].pc \in {"spawned", "selected", "reading", "metrics", "dialing",
                           "relaying", "returned"}
LiveForwarders == {c \in Clients : Live(c)}

\* The positions of the events op in the trace of c.
Places(c, op) == {i \in 1..Len(conn[c].trace) : conn[c].trace[i][1] = op}

\* C1: the forwarder tasks that were spawned and have not ended are at most
\* MAX_CONNECTIONS, and the permits handed out never exceed the capacity of
\* the semaphore.
C1_AdmissionBound ==
    /\ Cardinality(LiveForwarders) <= MAX_CONNECTIONS
    /\ permits >= 0
    /\ permits <= MAX_CONNECTIONS

\* C1 witness: every permit is held by a running forwarder while the
\* dispatcher holds a further accepted client.
C1_Witness ==
    /\ Cardinality(LiveForwarders) = MAX_CONNECTIONS
    /\ permits = 0
    /\ dpc = "acquire"

\* C2: a forwarder gives its permit back exactly once, on whatever path it
\* ends: the permits available and the running forwarders always add up to
\* MAX_CONNECTIONS, so with no forwarder running all permits are available.
C2_PermitReleased ==
    /\ permits + Cardinality(LiveForwarders) = MAX_CONNECTIONS
    /\ \A c \in Clients :
          /\ Count(c, "drop_permit") <= 1
          /\ conn[c].pc = "closed" <=> Count(c, "drop_permit") = 1
    /\ (LiveForwarders = {} => permits = MAX_CONNECTIONS)

\* C2 witness: every client was handed to a forwarder, all forwarders have
\* ended, one of them after forward_request, and the permits are back.
C2_Witness ==
    /\ \A c \in Clients : conn[c].pc = "closed"
    /\ \E c \in Clients : Did(c, "connection_ended")
    /\ permits = MAX_CONNECTIONS

\* C3: a forwarder calls connection_started at most once; connection_ended
\* is called only after connection_started, with the same backend, at most
\* once, and not before forward_request has returned; and a forwarder that
\* called connection_started has called connection_ended exactly once when
\* it ends.
C3_StartedEndedPaired ==
    \A c \in Clients :
        LET t == conn[c].trace
            S == Places(c, "connection_started")
            E == Places(c, "connection_ended")
        IN  /\ Cardinality(S) <= 1
            /\ Cardinality(E) <= 1
            /\ \A j \in E : \E i \in S : i < j /\ t[i][2] = t[j][2]
            /\ (conn[c].pc \in {"reading", "metrics", "dialing", "relaying",
                                "returned"}
                   => Cardinality(S) = 1 /\ E = {})
            /\ (conn[c].pc = "closed" /\ S # {} => Cardinality(E) = 1)

\* C3 witness: a forwarder has ended after connection_started and
\* connection_ended on the same backend, while another one is inside
\* forward_request.
C3_Witness ==
    \E c, d \in Clients :
        /\ conn[c].pc = "closed"
        /\ \E s \in Backends :
              conn[c].trace = <<Event("next_server", s),
                                Event("connection_started", s),
                                Event("connection_ended", s),
                                Event("drop_permit", c)>>
        /\ conn[d].pc = "relaying"

\* The forwarders that have called connection_started(s) and not yet
\* connection_ended(s).
InFlight(s) ==
    {c \in Clients :
        /\ \E i \in 1..Len(conn[c].trace) :
              conn[c].trace[i] = Event("connection_started", s)
        /\ ~ \E i \in 1..Len(conn[c].trace) :
              conn[c].trace[i] = Event("connection_ended", s)}

\* C4: under least-connections, for every backend s, total[s] is
\* successful[s] + active[s], and active[s] is the number of forwarders
\* between connection_started(s) and connection_ended(s).
C4_CounterConservation ==
    algo = "LeastConnections" =>
        \A s \in Backends :
            /\ Get(policy.total_requests, s, 0) =
                   Get(policy.successful_requests, s, 0) + Get(policy.connections, s, 0)
            /\ Get(policy.connections, s, 0) = Cardinality(InFlight(s))
            /\ Get(policy.connections, s, 0) >= 0

\* C4 witness: a backend with a finished connection and two in flight.
C4_Witness ==
    /\ algo = "LeastConnections"
    /\ \E s \in Backends :
          /\ Get(policy.successful_requests, s, 0) >= 1
          /\ Get(policy.connections, s, 0) >= 2

\* C5: a connection whose first read holds "GET /metrics" never has a
\* backend dialed for it.
C5_MetricsNeverDials ==
    \A c \in Clients :
        conn[c].kind = "metrics" =>
            /\ conn[c].dials = 0
            /\ conn[c].pc \notin {"dialing", "relaying"}

\* C5 witness: a forwarder is in the metrics branch of forward_request.
C5_Witness ==
    \E c \in Clients :
        /\ conn[c].kind = "metrics"
        /\ conn[c].pc = "metrics"
        /\ conn[c].dials = 0

\* C6: a connection whose first read holds "GET /metrics" has not called
\* next_server, connection_started or connection_ended, and when it is the
\* only connection so far the policy is as Algorithm::new left it.
C6_MetricsLeavesPolicyAlone ==
    \A c \in Clients :
        conn[c].kind = "metrics" =>
            /\ ~Did(c, "next_server")
            /\ ~Did(c, "connection_started")
            /\ ~Did(c, "connection_ended")
            /\ (naccepted = 1 => policy = BlankPolicy)

(***************************************************************************)
(* Properties of the policies called directly (SpecPolicy).                *)
(***************************************************************************)
\* C7: next_server returns None exactly when the pool is empty, and
\* otherwise a backend of the pool.
C7_NoneIffEmptyElseMember ==
    last.op = "next_server" =>
        /\ (last.ret = None <=> Len(servers) = 0)
        /\ (Len(servers) > 0 => last.ret \in Range(servers))

\* C7, the part the code keeps: the same, for every call made on a pool
\* whose backends do not all have weight 0 in a weighted round-robin.
C7_MemberUnlessZeroWeight ==
    (/\ last.op = "next_server"
     /\ ~(/\ algo = "WeightedRoundRobin"
          /\ Len(servers) > 0
          /\ total_weight(policy.weights, servers, 1) = 0))
        => /\ (last.ret = None <=> Len(servers) = 0)
           /\ (Len(servers) > 0 => last.ret \in Range(servers))

\* C8: next_server on an empty pool returns None and leaves every field of
\* the policy as it was.
C8_EmptyPoolNoEffect ==
    (last.op = "next_server" /\ Len(servers) = 0) =>
        /\ last.ret = None
        /\ policy = last.pre

\* C8 witness: a next_server call on an empty pool, after earlier calls.
C8_Witness ==
    /\ last.op = "next_server"
    /\ Len(servers) = 0
    /\ ncalls >= 3

\* The served count of backend s in policy p.
Served(p, s) == Get(p.requests_served, s, 0)

\* C9: for every policy, a next_server call that returns backend b raises
\* the served count of b by one and that of no other backend.
C9_ServedCountAllPolicies ==
    (last.op = "next_server" /\ last.ret \in Backends) =>
        \A s \in Backends :
            Served(policy, s) = Served(last.pre, s) + (IF s = last.ret THEN 1 ELSE 0)

\* C9 as amended: the same for round-robin, weighted round-robin and
\* IP-hash; a least-connections next_server changes no field of the policy.
C9_ServedCount ==
    (last.op = "next_server" /\ last.ret \in Backends) =>
        IF algo = "LeastConnections"
        THEN policy = last.pre
        ELSE \A s \in Backends :
                Served(policy, s) =
                    Served(last.pre, s) + (IF s = last.ret THEN 1 ELSE 0)

\* C9 witness: a call that returns a backend which was served before.
C9_Witness ==
    /\ last.op = "next_server"
    /\ last.ret \in Backends
    /\ algo # "LeastConnections"
    /\ Served(last.pre, last.ret) >= 1
    /\ Served(policy, last.ret) = Served(last.pre, last.ret) + 1

\* The number of times backend s is returned by calls i..j of the log.
Returned(s, i, j) == Cardinality({x \in i..j : log[x] = s})

\* C10: on a round-robin policy over a non-empty pool of n backends, every
\* k*n consecutive next_server calls return each backend exactly k times
\* (k = 1: every n consecutive calls return each backend once).
C10_RoundRobinRotation ==
    (algo = "RoundRobin" /\ Len(servers) > 0) =>
        LET n == Len(servers)
        IN  \A i \in 1..Len(log) : \A k \in 1..Len(log) :
                (i + k * n - 1 <= Len(log)) =>
                    \A s \in Range(servers) : Returned(s, i, i + k * n - 1) = k

\* C10 witness: two full rotations over a pool of at least two backends,
\* the first one not starting at the first call.
C10_Witness ==
    /\ algo = "RoundRobin"
    /\ Len(servers) >= 2
    /\ Len(log) > 2 * Len(servers)

\* The total weight of the pool under the weights the policy holds.
PoolWeight == total_weight(policy.weights, servers, 1)

\* C11: on a weighted round-robin policy over a non-empty pool whose
\* backends all have weights, of total W, every k*W consecutive next_server
\* calls return each backend s exactly k * weight[s] times.
C11_WeightedRotation ==
    (/\ algo = "WeightedRoundRobin"
     /\ Len(servers) > 0
     /\ Range(servers) \subseteq DOMAIN policy.weights
     /\ PoolWeight > 0) =>
        \A i \in 1..Len(log) : \A k \in 1..Len(log) :
            (i + k * PoolWeight - 1 <= Len(log)) =>
                \A s \in Range(servers) :
                    Returned(s, i, i + k * PoolWeight - 1) = k * policy.weights[s]

\* C11 witness: a full cycle, not starting at the first call, over two
\* backends of different weights.
C11_Witness ==
    /\ algo = "WeightedRoundRobin"
    /\ Len(servers) >= 2
    /\ Range(servers) \subseteq DOMAIN policy.weights
    /\ \E s, t \in Range(servers) :
          /\ policy.weights[s] > policy.weights[t]
          /\ policy.weights[t] > 0
    /\ Len(log) > PoolWeight

\* The backend IP-hash assigns to key x over the pool of the balancer.
HashBackend(x) == servers[u64_mod(IpHash_hash(x), Len(servers), 1, 0) + 1]

\* C12: an IP-hash next_server call that uses key x returns
\* pool[hash(x) mod len(pool)], which is the backend every earlier call with
\* key x returned, whatever calls and keys came between; after the call the
\* client-key map holds that backend for x, and every key it holds maps to
\* the backend of its hash.
C12_IpHashDeterministic ==
    (algo = "IpHash" /\ Len(servers) > 0) =>
        /\ \A x \in DOMAIN policy.ip_distribution :
              policy.ip_distribution[x] = HashBackend(x)
        /\ (last.op = "next_server" =>
              /\ last.ret = HashBackend(last.arg)
              /\ last.arg \in DOMAIN policy.ip_distribution
              /\ policy.ip_distribution[last.arg] = last.ret
              /\ (last.arg \in DOMAIN last.pre.ip_distribution =>
                     last.pre.ip_distribution[last.arg] = last.ret)
              /\ \A x \in DOMAIN last.pre.ip_distribution :
                     policy.ip_distribution[x] = last.pre.ip_distribution[x])

\* C12 witness: a call with a key that was used before, after calls with
\* another key that goes to another backend.
C12_Witness ==
    /\ algo = "IpHash"
    /\ Len(servers) >= 2
    /\ last.op = "next_server"
    /\ last.arg \in DOMAIN last.pre.ip_distribution
    /\ \E x \in DOMAIN last.pre.ip_distribution :
          last.pre.ip_distribution[x] # last.ret
    /\ Served(last.pre, last.ret) >= 2

\* The active count of backend s in policy p.
Active(p, s) == Get(p.connections, s, 0)

\* C13: a least-connections next_server call returns a backend of the pool
\* whose active count is minimal over the pool, every backend earlier in the
\* pool having a strictly larger count; so with two or more backends, one of
\* them at active = 1 and the others at 0, it returns another backend.
C13_LeastActiveFirst ==
    (algo = "LeastConnections" /\ last.op = "next_server" /\ Len(servers) > 0) =>
        /\ \E i \in 1..Len(servers) :
              /\ last.ret = servers[i]
              /\ \A j \in 1..Len(servers) :
                    Active(last.pre, servers[i]) <= Active(last.pre, servers[j])
              /\ \A j \in 1..(i - 1) :
                    Active(last.pre, servers[j]) > Active(last.pre, servers[i])
        /\ \A a \in Range(servers) :
              (/\ Len(servers) >= 2
               /\ Active(last.pre, a) = 1
               /\ \A s \in Range(servers) \ {a} : Active(last.pre, s) = 0)
                  => last.ret # a

\* C13 witness: a call made when the first backend has one connection and
\* the others none.
C13_Witness ==
    /\ algo = "LeastConnections"
    /\ last.op = "next_server"
    /\ Len(servers) >= 2
    /\ Active(last.pre, servers[1]) = 1
    /\ \A j \in 2..Len(servers) : Active(last.pre, servers[j]) = 0
    /\ last.ret = servers[2]

\* C13 witness of the tie: all backends with the same positive count.
C13_TieWitness ==
    /\ algo = "LeastConnections"
    /\ last.op = "next_server"
    /\ Len(servers) >= 2
    /\ \A j \in 1..Len(servers) : Active(last.pre, servers[j]) = 1
    /\ last.ret = servers[1]

\* C14: on a least-connections policy, after any sequence of
\* connection_started and connection_ended calls, every backend has
\* active >= 0 and successful <= total, and a connection_ended that finds
\* active = 0 or no entry changes no counter.
C14_NoUnderflow ==
    algo = "LeastConnections" =>
        /\ \A s \in Backends :
              /\ Active(policy, s) >= 0
              /\ Get(policy.successful_requests, s, 0) <= Get(policy.total_requests, s, 0)
        /\ ((last.op = "connection_ended" /\ Active(last.pre, last.arg) = 0)
               => policy = last.pre)

\* C14 witness: connection_ended on a backend whose connections have all
\* ended before.
C14_Witness ==
    /\ algo = "LeastConnections"
    /\ last.op = "connection_ended"
    /\ last.arg \in DOMAIN last.pre.connections
    /\ Active(last.pre, last.arg) = 0
    /\ Get(last.pre.successful_requests, last.arg, 0) >= 1
    /\ policy = last.pre

\* C14 witness: connection_ended on a backend that has no entry.
C14_NoEntryWitness ==
    /\ algo = "LeastConnections"
    /\ last.op = "connection_ended"
    /\ last.arg \notin DOMAIN last.pre.connections
    /\ policy = last.pre

\* C17: for every policy, a get_metrics call leaves every field of the
\* policy as it was, and a get_metrics call that directly follows another
\* one returns the same map.
C17_GetMetricsPure ==
    [][(last'.op = "get_metrics" /\ ncalls' = ncalls + 1) =>
          /\ policy' = policy
          /\ last'.pre = policy
          /\ (last.op = "get_metrics" => last'.ret = last.ret)]_vars

\* C17 witness: get_metrics has returned a map with an entry, after earlier
\* calls, from a policy that is as it was before the call.
C17_Witness ==
    /\ last.op = "get_metrics"
    /\ DOMAIN last.ret # {}
    /\ ncalls >= 3
    /\ policy = last.pre

(***************************************************************************)
(* Properties of the dispatcher under least-connections (SpecLeast).       *)
(***************************************************************************)
\* The backends next_server has returned to the forwarder of c.
Selected(c) == {conn[c].trace[i][2] : i \in Places(c, "next_server")}

\* Connection h is held open on backend a, no other connection has been
\* dispatched to a, and this step is the selection for connection d.
LaterDispatch(h, a, d) ==
    /\ conn[d].pc = "spawned"
    /\ conn'[d].pc = "selected"
    /\ h \in InFlight(a)
    /\ \A e \in Clients \ {h} : a \notin Selected(e)

\* C15: with least-connections and two backends, while one connection is
\* held open on backend a, every connection dispatched afterwards goes to
\* the other backend, whatever the later connections are doing.
C15_AllLaterToOther ==
    [][(algo = "LeastConnections" /\ Len(servers) = 2) =>
          \A a \in Range(servers) : \A h \in Clients : \A d \in Clients \ {h} :
              LaterDispatch(h, a, d) => conn'[d].server # a]_vars

\* C15 as amended: the same for every connection selected when no later
\* connection is between its connection_started and its connection_ended;
\* and a selection made when each backend has one such connection goes to
\* the first backend of the pool.
C15_LaterToOtherWhenIdle ==
    [][(algo = "LeastConnections" /\ Len(servers) = 2) =>
          \A a \in Range(servers) : \A h \in Clients : \A d \in Clients \ {h} :
              LaterDispatch(h, a, d) =>
                  /\ (\A b \in Range(servers) \ {a} : InFlight(b) = {})
                        => conn'[d].server # a
                  /\ (\A b \in Range(servers) :
                         Cardinality(InFlight(b)) = Cardinality(InFlight(a)))
                        => conn'[d].server = servers[1]]_vars

\* C15 witness: a connection is held open on a backend, a later one has
\* come and gone on the other backend, and one more has been dispatched to
\* the other backend.
C15_Witness ==
    /\ algo = "LeastConnections"
    /\ Len(servers) = 2
    /\ \E h, d, e \in Clients :
          /\ h # d /\ h # e /\ d # e
          /\ conn[h].pc = "relaying"
          /\ h \in InFlight(servers[1])
          /\ conn[e].pc = "closed"
          /\ Selected(e) = {servers[2]}
          /\ Did(e, "connection_ended")
          /\ conn[d].pc = "selected"
          /\ conn[d].server = servers[2]

(***************************************************************************)
(* Properties of two concurrent round-robin calls (SpecRace).              *)
(***************************************************************************)
\* The call of t is between the grant of the lock and its return.
InCritical(t) == task[t].pc \in {"locked", "read", "written"}

\* The call of t has written the cursor.
Observed(t) == task[t].pc \in {"written", "done"}

\* The read-increment-write of one call does not interleave with that of
\* the other, and no advance of the cursor is lost: one call reads what the
\* other wrote, and the cursor ends at what the second wrote.
Serialised ==
    /\ \A t, u \in Callers : (t # u /\ InCritical(t)) => ~InCritical(u)
    /\ \A t \in Callers : InCritical(t) => lock = t
    /\ \A t \in Callers :
          Observed(t) => task[t].seen = (task[t].local + 1) % Len(servers)
    /\ ((\A t \in Callers : task[t].pc = "done") =>
           \E t, u \in Callers :
               /\ t # u
               /\ task[u].local = task[t].seen
               /\ policy.current = task[u].seen)

C18_ShutdownReturns ==
    sig ~> (dpc = "done" /\ reporter = "aborted")

\* C18, the part the code keeps: the interrupt leads to the return of run
\* or to a dispatcher suspended in acquire_owned() with no permit left.
C18_ReturnsUnlessStarved ==
    sig ~> \/ (dpc = "done" /\ reporter = "aborted")
           \/ (dpc = "acquire" /\ permits = 0)

\* The client sockets that were accepted and are still open.
OpenSockets == {c \in Clients : conn[c].pc = "accepted" \/ Live(c)}

\* C19: the permit is acquired before the socket is accepted: every open
\* accepted socket has a permit of its own, and while every permit is held
\* by a running forwarder no further socket has been accepted.
C19_PermitBeforeAccept ==
    /\ Cardinality(OpenSockets) <= MAX_CONNECTIONS - permits
    /\ (Cardinality(LiveForwarders) = MAX_CONNECTIONS =>
           \A c \in Clients : conn[c].pc # "accepted")

\* The forwarders inside the relay of forward_request.
Relaying == {c \in Clients : conn[c].pc = "relaying"}

\* C20: a client that arrived while every permit was held is handed to a
\* forwarder once a running forwarder has ended (unless the interrupt comes
\* before it is accepted), and never more than MAX_CONNECTIONS forwarders
\* are relaying.
C20_QueuedClientServed ==
    /\ \A c \in Clients :
          (conn[c].pc \in {"new", "accepted"} /\ permits = 0)
              ~> (Did(c, "next_server") \/ (sig /\ conn[c].pc = "new"))
    /\ [](Cardinality(Relaying) <= MAX_CONNECTIONS)

\* C20 witness: every permit is held by a forwarder inside the relay, one
\* client is accepted and waits for a permit, and there have been more
\* clients than permits.
C20_Witness ==
    /\ Cardinality(Relaying) = MAX_CONNECTIONS
    /\ permits = 0
    /\ naccepted > MAX_CONNECTIONS
    /\ conn[naccepted].pc = "accepted"
    /\ sig = FALSE

(***************************************************************************)
(* Properties of forward_request (Spec).                                   *)
(***************************************************************************)
\* C22: over an empty pool a client that sends "GET /metrics" still gets
\* the local response, and no backend is dialed for any client: the
\* forwarder does not end before it has read the request, and it dials
\* nothing.
C22_EmptyPoolMetricsAnswered ==
    [][Len(servers) = 0 =>
          \A c \in Clients :
              /\ (conn[c].pc = "spawned" => conn'[c].pc # "closed")
              /\ conn'[c].dials = 0
              /\ conn'[c].pc \notin {"dialing", "relaying"}]_vars

\* C22, the part the code keeps: over an empty pool no forwarder dials a
\* backend or starts a relay.
C22_EmptyPoolNoDial ==
    Len(servers) = 0 =>
        \A c \in Clients :
            /\ conn[c].dials = 0
            /\ conn[c].pc \notin {"dialing", "relaying"}

\* C23: a forwarder whose first read returned 0 bytes ends at once: it
\* dials no backend and starts no relay.
C23_EofTerminates ==
    \A c \in Clients :
        conn[c].kind = "eof" =>
            /\ conn[c].dials = 0
            /\ conn[c].pc \notin {"dialing", "relaying"}

(***************************************************************************)
(* Properties of the weighted round-robin walk (SpecPolicy).               *)
(***************************************************************************)
\* The sum of the weights of the first i backends of the pool.
RECURSIVE Cumulative(_)
Cumulative(i) ==
    IF i = 0 THEN 0 ELSE Cumulative(i - 1) + Get(policy.weights, servers[i], 1)

\* C26: a weighted round-robin next_server call over a non-empty pool of
\* total weight W leaves the cursor at c = (previous cursor + 1) mod W and
\* returns the first backend of the pool whose cumulative weight is greater
\* than c; it never falls through to pool[0].
C26_WeightedWalk ==
    (algo = "WeightedRoundRobin" /\ last.op = "next_server" /\ Len(servers) > 0) =>
        /\ PoolWeight > 0
        /\ policy.current = (last.pre.current + 1) % PoolWeight
        /\ \E i \in 1..Len(servers) :
              /\ last.ret = servers[i]
              /\ Cumulative(i) > policy.current
              /\ Cumulative(i - 1) <= policy.current
        /\ ~last.fell

\* C26, the part the code keeps: the same for every call over a pool whose
\* total weight is not 0.
C26_WalkUnlessZeroWeight ==
    (/\ algo = "WeightedRoundRobin"
     /\ last.op = "next_server"
     /\ Len(servers) > 0
     /\ PoolWeight > 0) =>
        /\ policy.current = (last.pre.current + 1) % PoolWeight
        /\ \E i \in 1..Len(servers) :
              /\ last.ret = servers[i]
              /\ Cumulative(i) > policy.current
              /\ Cumulative(i - 1) <= policy.current
        /\ ~last.fell

\* The weights are kept: a call removes or changes no weight, and after a
\* next_server call over a non-empty pool every backend of the pool has one.
WeightsKept ==
    /\ \A s \in DOMAIN last.pre.weights :
          s \in DOMAIN policy.weights /\ policy.weights[s] = last.pre.weights[s]
    /\ ((last.op = "next_server" /\ Len(servers) > 0) =>
           /\ Range(servers) \subseteq DOMAIN policy.weights
           /\ DOMAIN policy.weights = DOMAIN last.pre.weights \cup Range(servers)
           /\ \A s \in DOMAIN policy.weights \ DOMAIN last.pre.weights :
                 policy.weights[s] >= 1)
    /\ (last.op \in {"connection_started", "connection_ended", "get_metrics"} =>
           policy.weights = last.pre.weights)

\* C27: in every state of a weighted round-robin policy, however it was
\* constructed, every stored weight is at least 1, so the total weight of a
\* non-empty pool with weights is at least 1; and the weights are kept.
C27_WeightsPositive ==
    algo = "WeightedRoundRobin" =>
        /\ \A s \in DOMAIN policy.weights : policy.weights[s] >= 1
        /\ ((Len(servers) > 0 /\ Range(servers) \subseteq DOMAIN policy.weights)
               => PoolWeight >= 1)
        /\ (last.op # None => WeightsKept)

\* C27, the part the code keeps: the weights are kept, and a weight drawn
\* by ensure_weights is at least 1.
C27_WeightsKept ==
    (algo = "WeightedRoundRobin" /\ last.op # None) => WeightsKept

(***************************************************************************)
(* Properties of a failed dial (SpecDial).                                 *)
(***************************************************************************)
\* The forwarder of c has had its connect fail and has not ended yet.
DialFailed(c) == conn[c].result = "ErrConnect"

\* C21: a failed dial stays local to its connection: the forwarder dials
\* nothing else, calls connection_ended once for the backend it had called
\* connection_started for, which takes the active count of the backend down
\* by the one that connection_started added, gives its permit back and
\* ends; and the accept loop is left as it was, able to accept.
C21_DialFailureLocal ==
    /\ [](\A c \in Clients :
            /\ conn[c].dials <= 1
            /\ (DialFailed(c) =>
                  /\ conn[c].pc = "returned"
                  /\ conn[c].dials = 0
                  /\ Count(c, "connection_started") = 1
                  /\ Count(c, "connection_ended") = 0
                  /\ c \in InFlight(conn[c].server)
                  /\ ((dpc = "select" /\ naccepted < NumClients)
                         => ENABLED D_Accept)))
    /\ [][\A c \in Clients :
            (DialFailed(c) /\ conn'[c] # conn[c]) =>
                /\ conn'[c] =
                      Closed(conn[c].trace \o
                             <<Event("connection_ended", conn[c].server),
                               Event("drop_permit", c)>>)
                /\ permits' = permits + 1
                /\ policy' = Algorithm_connection_ended(algo, policy, conn[c].server)
                /\ (algo = "LeastConnections" =>
                       Active(policy', conn[c].server) =
                           Active(policy, conn[c].server) - 1)
                /\ UNCHANGED <<dpc, sig, reporter, naccepted>>]_vars

\* C21 witness: a connect has failed while another connection is in flight
\* on the same backend and a further client waits to be accepted.
C21_Witness ==
    /\ dpc = "select"
    /\ naccepted < NumClients
    /\ \E c \in Clients :
          /\ DialFailed(c)
          /\ Active(policy, conn[c].server) = 2

(***************************************************************************)
(* Properties of the relay (SpecRelay, SpecFault).                         *)
(***************************************************************************)
\* The connection of c is over: the task has ended after both copies read
\* the end of their stream, and the client has read its response.
Completed(c) ==
    /\ conn[c].pc = "closed"
    /\ Relay(c).c2s = "Ok"
    /\ Relay(c).s2c = "Ok"
    /\ Relay(c).client = "closed"
    /\ Relay(c).backend = "closed"

\* C24: with the round-robin policy, backends that answer and close and
\* clients that close after the response, every client is accepted, the
\* forwarder of every connection ends after both copies reached the end of
\* their stream, every client reads its response, and so the whole batch
\* completes; no client is answered before the backend has answered.
C24_BatchCompletes ==
    /\ <>[](\A c \in Clients : Completed(c))
    /\ [](\A c \in Clients :
            Relay(c).client # "waiting" => Relay(c).backend # "waiting")

\* C24 witness: the batch is complete and all permits are back.
C24_Witness ==
    /\ \A c \in Clients : Completed(c)
    /\ permits = MAX_CONNECTIONS
    /\ NumClients > MAX_CONNECTIONS

\* C25: no forwarder waits in the join while one copy has failed and the
\* other has not completed.
C25_NoWaitAfterError ==
    \A c \in Clients :
        (conn[c].pc = "relaying" /\ CopyFailed(c)) => Joined(c)

(***************************************************************************)
(* Properties of the locks (SpecLocks).                                    *)
(***************************************************************************)
\* The call op of the task t has returned.
HasReturned(t, op) ==
    /\ thread[t].pc # "new"
    /\ \A i \in 1..Len(thread[t].todo) : thread[t].todo[i] # Leave(op)

\* No call op is in progress.
Quiet(op) == \A t \in Forwarders : thread[t].pc = "new" \/ HasReturned(t, op)

\* The forwarders whose call op for the backend s has returned, and those
\* whose connection_ended has done its update.
CallsOn(op, s) == {t \in Forwarders : HasReturned(t, op) /\ thread[t].ret = s}
EndedOn(s) ==
    {t \in CallsOn("connection_started", s) :
        \A i \in 1..Len(thread[t].todo) : thread[t].todo[i] # <<"ended">>}

\* C28: no update of a counter is lost.  When no next_server call is in
\* progress on a round-robin, weighted or IP-hash policy, the served count
\* of each backend is the number of calls that returned it; when no
\* connection_started call is in progress on least-connections, the total
\* of each backend is the number of calls made for it and its active count
\* that number less the connections that have ended.
C28_NoLostUpdate ==
    /\ (algo # "LeastConnections" /\ Quiet("next_server")) =>
          \A s \in Range(servers) :
              Get(policy.requests_served, s, 0) =
                  Cardinality(CallsOn("next_server", s))
    /\ (algo = "LeastConnections" /\ Quiet("connection_started")) =>
          \A s \in Range(servers) :
              /\ Get(policy.total_requests, s, 0) =
                    Cardinality(CallsOn("connection_started", s))
              /\ Get(policy.connections, s, 0) =
                    Cardinality(CallsOn("connection_started", s)) -
                    Cardinality(EndedOn(s))

\* C28 witness: one forwarder has read a counter under a write guard and
\* not yet written it back while the other forwarder waits for that guard.
C28_Witness ==
    \E t, u \in Forwarders : \E l \in Locks :
        /\ t # u
        /\ Held(l).w = t
        /\ Queued(u, l)
        /\ At(t, "store")
        /\ Step(t)[4] = "inc"

\* C29: a forwarder that is in a network operation holds no guard, neither
\* of the policy nor of the pool, and waits for none.
C29_NoGuardAcrossIo ==
    \A t \in Forwarders :
        At(t, "io") => Holds(t) = {} /\ \A l \in Locks : ~Queued(t, l)

\* C29 witness: a forwarder relays while another task holds a guard of the
\* policy, after the forwarder itself has held the guard of the pool.
C29_Witness ==
    \E t \in Forwarders :
        /\ At(t, "io")
        /\ Step(t)[2] = "relay"
        /\ \E u \in Threads \ {t} : Holds(u) \ {"servers"} # {}

\* The place of each lock in the order the code takes them.
LockRank(l) ==
    CASE l = "servers" -> 0
      [] l \in {"weights", "connections"} -> 1
      [] l = "current" -> 2
      [] l \in {"requests_served", "total_requests"} -> 3
      [] l \in {"ip_distribution", "successful_requests"} -> 4

\* C30: the calls cannot deadlock.  A task that asks for a guard holds only
\* guards that come earlier in one order; every forwarder runs to its end,
\* and every get_metrics call of the reporter returns.
C30_DeadlockFree ==
    /\ [](\A t \in Threads :
            At(t, "acq") =>
                \A h \in Holds(t) : LockRank(h) < LockRank(Step(t)[2]))
    /\ \A t \in Forwarders : <>(thread[t].pc = "done")
    /\ []<>(thread[Reporter].todo = <<>>)

\* C30 witness: a lock is held by a reader while a writer waits for it and
\* a second reader waits behind the writer.
C30_Witness ==
    \E l \in Locks :
        /\ Held(l).r # {}
        /\ Len(WaitQ(l)) = 2
        /\ WaitQ(l)[1][2] = "W"
        /\ WaitQ(l)[2][2] = "R"

(***************************************************************************)
(* Properties of the success counter (SpecOutcome).                        *)
(***************************************************************************)
\* The connections whose task has called connection_ended(s), and those of
\* them whose forward_request returned the error e.
Ended(s) ==
    {c \in Clients : \E i \in 1..Len(conn[c].trace) :
                        conn[c].trace[i] = Event("connection_ended", s)}
Failed(s, e) ==
    {c \in Ended(s) : \E i \in 1..Len(conn[c].trace) :
                         conn[c].trace[i] = Event("eprintln", e)}

\* C31: under least-connections driven by the dispatcher, successful[s]
\* counts every connection that has ended on s, whatever its outcome: the
\* return of a forwarder adds one to successful[s] after an error as after
\* Ok(()), successful[s] is the number of connections ended on s, and
\* whenever no connection to s is in flight successful[s] = total[s].
C31_SuccessCountsEveryEnd ==
    /\ [](\A s \in Backends :
            /\ Get(policy.successful_requests, s, 0) = Cardinality(Ended(s))
            /\ (InFlight(s) = {} =>
                   Get(policy.successful_requests, s, 0) =
                       Get(policy.total_requests, s, 0)))
    /\ [][\A c \in Clients :
            (conn[c].pc = "returned" /\ conn'[c].pc = "closed") =>
                Get(policy'.successful_requests, conn[c].server, 0) =
                    Get(policy.successful_requests, conn[c].server, 0) + 1]_vars

\* C31 witness: on one backend a connection whose connect failed and a
\* connection that returned Ok(()) have both ended, none is in flight, and
\* both are counted as successful.
C31_Witness ==
    \E s \in Backends :
        /\ Failed(s, "ErrConnect") # {}
        /\ Ended(s) \ (Failed(s, "ErrConnect") \cup Failed(s, "Err")) # {}
        /\ InFlight(s) = {}
        /\ Get(policy.successful_requests, s, 0) = 2
        /\ Get(policy.total_requests, s, 0) = 2

(***************************************************************************)
(* Properties of the accept loop (Spec).                                   *)
(***************************************************************************)
\* The clients that were accepted and not yet handed to a forwarder.
AwaitingPermit == {c \in Clients : conn[c].pc = "accepted"}

\* C32: at most one accepted client socket waits for a permit, it is the
\* one the dispatcher accepted last, and while it waits the dispatcher is
\* inside acquire_owned() and accepts no other connection; so the open
\* accepted sockets are at most one more than the permits handed out, and
\* never more than MAX_CONNECTIONS + 1.
C32_OneAwaitingPermit ==
    /\ [](/\ Cardinality(AwaitingPermit) <= 1
          /\ (AwaitingPermit # {} =>
                 /\ AwaitingPermit = {naccepted}
                 /\ dpc = "acquire"
                 /\ ~ ENABLED D_Accept)
          /\ (dpc = "acquire" => AwaitingPermit = {naccepted})
          /\ Cardinality(OpenSockets) =
                 Cardinality(LiveForwarders) + Cardinality(AwaitingPermit)
          /\ Cardinality(OpenSockets) <= (MAX_CONNECTIONS - permits) + 1
          /\ Cardinality(OpenSockets) <= MAX_CONNECTIONS + 1)
    /\ [][AwaitingPermit # {} =>
             /\ naccepted' = naccepted
             /\ AwaitingPermit' \subseteq AwaitingPermit]_vars

\* C32 witness: MAX_CONNECTIONS forwarders run with their sockets open and
\* one more accepted socket waits in the dispatcher for a permit.
C32_Witness ==
    /\ Cardinality(OpenSockets) = MAX_CONNECTIONS + 1
    /\ AwaitingPermit = {naccepted}
    /\ permits = 0
    /\ ~ ENABLED D_Accept

====
